---- MODULE Spec2Model ----
(***************************************************************************)
(* The Hypothesis Engine of backend-py/hypothesis_engine.py: one run of    *)
(* HypothesisEngine.analyze_company_risk, stage by stage, with every       *)
(* Oracle (AIService.query) answer drawn from a small set of shapes.       *)
(*                                                                         *)
(* Conventions                                                             *)
(*  - a JSON value the code stores without looking at it is a record       *)
(*    [tag, h]: tag "num" is a number whose value is h/2 (so 72.5 is       *)
(*    h = 145 and an integer has an even h), tag "str" a non-numeric       *)
(*    value, tag "unset" a key that is not in the dict;                    *)
(*  - an id f"ss_{k}" is <<"ss", k>>, f"ss_financial_{k}" is               *)
(*    <<"ss_financial", k>>, f"ps_{k}" is <<"ps", k>>;                     *)
(*  - a string the code strips is [wrapped, core]: core is the text left   *)
(*    after strip(), wrapped says whether quotes/whitespace surround it.   *)
(***************************************************************************)
EXTENDS Integers, Sequences, FiniteSets, TLC

\* ------------------------------------------------------------------ bounds
MaxNews == 1
MaxSocial == 1
MaxInsights == 1
\* the normalizer on its own is run on longer lists
MaxRaw == 2
\* the financial stage on its own is run on longer answers
MaxExtracted == 3

\* ------------------------------------------------------- JSON-like values
Num(n) == [tag |-> "num", h |-> 2 * n]
Half(n) == [tag |-> "num", h |-> 2 * n + 1]
NonNumeric == [tag |-> "str", h |-> 0]
Unset == [tag |-> "unset", h |-> 0]

IsNumber(v) == v.tag = "num"
IsInteger(v) == v.tag = "num" /\ v.h % 2 = 0

Absent == "<absent>"

SsId(k) == <<"ss", k>>
FinId(k) == <<"ss_financial", k>>
PsId(k) == <<"ps", k>>

RECURSIVE SeqSum(_)
SeqSum(s) == IF s = <<>> THEN 0 ELSE Head(s) + SeqSum(Tail(s))

Range(s) == {s[i] : i \in DOMAIN s}

\* [x for x in s if Keep(x)]
RECURSIVE SelectSeq2(_, _)
SelectSeq2(s, keep) ==
    IF s = <<>> THEN <<>>
    ELSE IF Head(s) \in keep THEN <<Head(s)>> \o SelectSeq2(Tail(s), keep)
    ELSE SelectSeq2(Tail(s), keep)

\* --------------------------------------------------------------- taxonomy
\* the dict literal of _group_into_primary_signals, in insertion order
Taxonomy == <<
    [key |-> "OPERATIONAL_DEGRADATION", id |-> PsId(1), risk_level |-> "high"],
    [key |-> "FINANCIAL_DISTRESS",      id |-> PsId(2), risk_level |-> "high"],
    [key |-> "WORKFORCE_ISSUES",        id |-> PsId(3), risk_level |-> "high"],
    [key |-> "REGULATORY_LEGAL",        id |-> PsId(4), risk_level |-> "high"],
    [key |-> "MARKET_PERCEPTION",       id |-> PsId(5), risk_level |-> "medium"],
    [key |-> "STRATEGIC_ANOMALIES",     id |-> PsId(6), risk_level |-> "medium"],
    [key |-> "INDUSTRY_CHALLENGES",     id |-> PsId(7), risk_level |-> "medium"],
    [key |-> "PRODUCT_SERVICE_ISSUES",  id |-> PsId(8), risk_level |-> "medium"] >>

CategoryKeys == {Taxonomy[i].key : i \in DOMAIN Taxonomy}

\* ----------------------------------------------------------------- inputs
\* a raw record, as far as the pipeline's decisions read it: its
\* 'source_type' field (Absent: the key is missing)
NewsRecords == {[source_type |-> Absent], [source_type |-> "press"]}
SocialRecords == {[source_type |-> Absent], [source_type |-> "reddit"]}

SeqsUpTo(S, n) == UNION {[1..k -> S] : k \in 0..n}

\* financial_data: None, {}, a dict with neither a summary nor an ai_analysis,
\* or a dict with a summary
FinancialInputs == {"none", "empty", "no_summary", "present"}

VARIABLES
    pc,                  \* the statement of analyze_company_risk about to run
    news_signals, social_signals, financial_data,      \* the arguments
    supporting_signals,  \* the list built by step 1 and scored by step 4
    financial_insights,  \* what _extract_financial_insights returned (line 68)
    buckets,             \* _group_into_primary_signals: category -> ids
    idx,                 \* _group_into_primary_signals: loop position
    response,            \* the Oracle's answer to the last classification
    primary_signals,
    overall_risk_score, major_hypothesis, risk_summary,
    data_sources,        \* the 'data_sources' entry of the returned dict
    debug_files,         \* the three files of dumps/debug, next to the module
    other_run,           \* how far a second run on the same engine has got
    caller_signals,      \* the lists a caller passes to the scoring stages
    oracle,              \* a prompt-deterministic Oracle: its answers so far
    runs,                \* what each finished round of scoring returned
    dump_manager,        \* a JSONDumpManager: its checklist and its directory
    path,                \* which branch each Oracle stage took
    error                \* the exception that left analyze_company_risk

vars == <<pc, news_signals, social_signals, financial_data, supporting_signals,
          financial_insights, buckets, idx, response, primary_signals,
          overall_risk_score, major_hypothesis, risk_summary, data_sources,
          debug_files, other_run, caller_signals, oracle, runs, dump_manager,
          path, error>>

NoResponse == [kind |-> "none", wrapped |-> FALSE, core |-> ""]
NoOverall == [shape |-> "unset", score |-> Unset, level |-> "unset",
              confidence |-> "unset"]
NoSummary == [overall_risk |-> "unset", confidence |-> "unset",
              recommendation |-> "unset"]
\* a file of dumps/debug: missing, or holding json.dump(data)
NoFile == [exists |-> FALSE, data |-> <<>>]
FileOf(data) == [exists |-> TRUE, data |-> data]
NoDebugFiles == [supporting_signals |-> NoFile, primary_signals |-> NoFile,
                 assignment_analysis |-> NoFile]

\* nothing returned yet
NoDataSources == [news_count |-> -1, social_count |-> -1,
                  has_financial_data |-> FALSE]
EmptyBuckets == [c \in CategoryKeys |-> <<>>]
\* before any round of scoring
NoCaller == [supporting |-> <<>>, primary |-> <<>>]
NoAnswers == [supporting |-> {}, primary |-> {}, overall |-> {}]

\* JSONDumpManager.__init__ on an empty directory (lines 24-27, 44)
NoDumps == [checklist |-> [dumps |-> <<>>, total_dumps |-> 0], files |-> {}]

NoPath == [extract |-> "none", supporting |-> "none", primary |-> "none",
           overall |-> "none", narrative |-> "none"]

Init ==
    /\ pc = "normalize"
    /\ news_signals \in SeqsUpTo(NewsRecords, MaxNews)
    /\ social_signals \in SeqsUpTo(SocialRecords, MaxSocial)
    /\ financial_data \in FinancialInputs
    /\ supporting_signals = <<>>
    /\ financial_insights = <<>>
    /\ buckets = EmptyBuckets
    /\ idx = 0
    /\ response = NoResponse
    /\ primary_signals = <<>>
    /\ overall_risk_score = NoOverall
    /\ major_hypothesis = "unset"
    /\ risk_summary = NoSummary
    /\ data_sources = NoDataSources
    /\ debug_files = NoDebugFiles
    /\ other_run = "none"
    /\ caller_signals = NoCaller
    /\ oracle = NoAnswers
    /\ runs = <<>>
    /\ dump_manager = NoDumps
    /\ path = NoPath
    /\ error = "none"

\* ------------------------------------------------- the order of the steps
\* analyze_company_risk is straight-line code: the statement that follows
\* each step (lines 49-202)
AfterStage_Rescore(stage) ==
    IF stage = "score_primary" THEN "score_supporting"
    ELSE IF stage = "normalize" THEN "validate"
    ELSE IF stage = "validate" THEN "extract"
    ELSE IF stage = "extract" THEN "classify"
    ELSE IF stage = "classify" THEN "audit"
    ELSE IF stage = "audit" THEN "score_supporting"
    ELSE IF stage = "score_supporting" THEN "score_primary"
    ELSE IF stage = "synthesize" THEN "narrate"
    ELSE IF stage = "narrate" THEN "summarize"
    ELSE "returned"

AfterStage(stage) ==
    IF stage = "normalize" THEN "validate"
    ELSE IF stage = "validate" THEN "extract"
    ELSE IF stage = "extract" THEN "classify"
    ELSE IF stage = "classify" THEN "audit"
    ELSE IF stage = "audit" THEN "score_supporting"
    ELSE IF stage = "score_supporting" THEN "score_primary"
    ELSE IF stage = "score_primary" THEN "synthesize"
    ELSE IF stage = "synthesize" THEN "narrate"
    ELSE IF stage = "narrate" THEN "summarize"
    ELSE "returned"

\* ------------------------------------------------------ step 1: normalize
\* signal.get('source_type', default)
ResolveSourceType(signal, default) ==
    IF signal.source_type = Absent THEN default ELSE signal.source_type

\* the dict appended at lines 262-270 (news), 328-336 (social) and 70-78
\* (financial); evidence_url is "" for an empty string and "<null>" for None
SupportingSignal(id, source_type, severity, evidence_url) ==
    [id |-> id, source_type |-> source_type, severity |-> severity,
     evidence_url |-> evidence_url,
     risk_score |-> Unset, risk_reasoning |-> "unset"]

RECURSIVE AppendRaw(_, _, _, _)
\* one of the two for-loops: appends a signal per record, counting from
\* signal_counter
AppendRaw(out, signals, default, signal_counter) ==
    IF signals = <<>> THEN out
    ELSE AppendRaw(
            Append(out, SupportingSignal(SsId(signal_counter),
                                         ResolveSourceType(Head(signals), default),
                                         "medium",
                                         \* a record without any url field
                                         "")),
            Tail(signals), default, signal_counter + 1)

\* as if the second loop started its own counter
create_supporting_signals_restart_counter(news, social) ==
    LET afterNews == AppendRaw(<<>>, news, "news", 1)
    IN AppendRaw(afterNews, social, "social", 1)

create_supporting_signals_from_raw_signals(news, social) ==
    LET afterNews == AppendRaw(<<>>, news, "news", 1)
    IN AppendRaw(afterNews, social, "social", Len(afterNews) + 1)

Normalize ==
    /\ pc = "normalize"
    /\ supporting_signals' =
          create_supporting_signals_from_raw_signals(news_signals, social_signals)
    /\ pc' = AfterStage("normalize")
    /\ UNCHANGED <<news_signals, social_signals, financial_data,
                   financial_insights, buckets, idx, response,
                   primary_signals, overall_risk_score, major_hypothesis,
                   risk_summary, data_sources, path, error, debug_files,
                   other_run, caller_signals, oracle, runs, dump_manager>>

\* line 56, with total_input_signals of line 47
CountMismatch_FewerOnly(supporting, news, social) ==
    Len(supporting) < Len(news) + Len(social)

CountMismatch(supporting, news, social) ==
    Len(supporting) # Len(news) + Len(social)

\* lines 47, 55-58: the 1-to-1 check
ValidateCount ==
    /\ pc = "validate"
    /\ IF CountMismatch(supporting_signals, news_signals, social_signals)
       THEN pc' = "raised" /\ error' = "ValueError"
       ELSE pc' = AfterStage("validate") /\ error' = error
    /\ UNCHANGED <<news_signals, social_signals, financial_data,
                   financial_insights, supporting_signals, buckets, idx,
                   response, primary_signals, overall_risk_score,
                   major_hypothesis, risk_summary, data_sources, path,
                   debug_files, other_run, caller_signals, oracle, runs,
                   dump_manager>>

\* ------------------------------------------- step 2: financial insights
InsightSeverities == {Absent, "high", "low", "critical"}

\* the Oracle's answers to the financial prompt, with up to n insights
FinancialResponsesUpTo(n) ==
    {[kind |-> "raise", insights |-> <<>>],
     [kind |-> "text", insights |-> <<>>],          \* json.loads raises
     [kind |-> "json_list", insights |-> <<>>],     \* result.get raises
     [kind |-> "json_strings", insights |-> <<>>]}  \* insight[...] = raises
    \cup {[kind |-> "json", insights |-> s] :
            s \in SeqsUpTo([severity : InsightSeverities], n)}

FinancialResponses == FinancialResponsesUpTo(MaxInsights)

\* _extract_financial_insights, given the answer the Oracle would return
extract_financial_insights(fin, resp) ==
    \* `if not financial_data` (line 616)
    IF fin \in {"none", "empty"} THEN <<>>
    \* `if not summary and not ai_analysis` (line 625)
    ELSE IF fin = "no_summary" THEN <<>>
    ELSE IF resp.kind = "json" THEN resp.insights
    ELSE <<>>

\* as if the ids were numbered with idx instead of idx + 1
RECURSIVE AppendInsights_ZeroBased(_, _, _)
AppendInsights_ZeroBased(out, insights, k) ==
    IF insights = <<>> THEN out
    ELSE AppendInsights_ZeroBased(
            Append(out, SupportingSignal(
                FinId(k - 1), "financial",
                IF Head(insights).severity = Absent THEN "medium"
                ELSE Head(insights).severity,
                "<null>")),
            Tail(insights), k + 1)

\* lines 69-78
RECURSIVE AppendInsights(_, _, _)
AppendInsights(out, insights, k) ==
    IF insights = <<>> THEN out
    ELSE AppendInsights(
            Append(out, SupportingSignal(
                FinId(k), "financial",
                IF Head(insights).severity = Absent THEN "medium"
                ELSE Head(insights).severity,
                "<null>")),
            Tail(insights), k + 1)

\* lines 68-78, the Oracle answering from `responses` when it is asked
ExtractWith(responses) ==
    /\ pc = "extract"
    /\ \E resp \in (IF financial_data = "present" THEN responses
                   ELSE {[kind |-> "unasked", insights |-> <<>>]}) :
          /\ financial_insights' = extract_financial_insights(financial_data, resp)
          /\ supporting_signals' =
                AppendInsights(supporting_signals,
                               extract_financial_insights(financial_data, resp), 1)
          \* lines 84-88: dumps/debug/supporting_signals.json
          /\ debug_files' = [debug_files EXCEPT !.supporting_signals =
                FileOf(AppendInsights(supporting_signals,
                          extract_financial_insights(financial_data, resp), 1))]
          /\ path' = [path EXCEPT !.extract =
                         IF financial_data # "present" THEN "none"
                         ELSE IF resp.kind = "json" THEN "oracle"
                         ELSE "fallback"]
    /\ pc' = AfterStage("extract")
    /\ UNCHANGED <<news_signals, social_signals, financial_data, buckets, idx,
                   response, primary_signals, overall_risk_score,
                   major_hypothesis, risk_summary, data_sources, error,
                   other_run, caller_signals, oracle, runs, dump_manager>>

Extract == ExtractWith(FinancialResponses)

\* ------------------------------------------------------ step 3: classify
\* the Oracle's answers to one classification prompt
ClassifyTokens == {"OPERATIONAL_DEGRADATION", "WORKFORCE_ISSUES",
                   "MARKET_PERCEPTION", "workforce_issues", "WORKFORCE ISSUES"}

ClassifyResponses ==
    {[kind |-> "raise", wrapped |-> FALSE, core |-> ""]}
    \cup {[kind |-> "text", wrapped |-> w, core |-> t] :
            w \in BOOLEAN, t \in ClassifyTokens}
    \* '{"category": ...}' with a string value
    \cup {[kind |-> "json", wrapped |-> w, core |-> t] :
            w \in BOOLEAN, t \in {"WORKFORCE_ISSUES", "LABOUR"}}
    \* '{"category": 3}', '{"label": "WORKFORCE_ISSUES"}', '{"category": '
    \cup {[kind |-> k, wrapped |-> FALSE, core |-> "{...}"] :
            k \in {"json_nonstring", "json_nokey", "json_malformed"}}

\* str.strip(): drops surrounding whitespace and quote characters
Strip(s) == [wrapped |-> FALSE, core |-> s.core]

\* `category not in available_categories`, on the string as it stands
InCategories(s, available_categories) ==
    ~s.wrapped /\ s.core \in available_categories

\* as if the answer were validated without the two strip() calls
classify_single_signal_unstripped(resp, available_categories) ==
    IF resp.kind \in {"raise", "json_nonstring"} THEN "MARKET_PERCEPTION"
    ELSE LET raw == [wrapped |-> resp.wrapped, core |-> resp.core]
         IN IF InCategories(raw, available_categories) THEN raw.core
            ELSE "MARKET_PERCEPTION"

\* _classify_single_signal, given the answer the Oracle returns
classify_single_signal(resp, available_categories) ==
    IF resp.kind \in {"raise", "json_nonstring"} THEN "MARKET_PERCEPTION"
    ELSE LET raw == [wrapped |-> resp.wrapped, core |-> resp.core]
             \* response.strip(), then the JSON unwrapping: a parsed dict
             \* yields its 'category' value as written, anything else
             \* leaves the stripped response
             category == IF resp.kind = "json" THEN raw ELSE Strip(raw)
             cleaned == Strip(category)
         IN IF InCategories(cleaned, available_categories) THEN cleaned.core
            ELSE "MARKET_PERCEPTION"

\* _calculate_source_distribution
SourceBucket(source_type) ==
    IF source_type \in {"news", "google_news", "blog"} THEN "News"
    ELSE IF source_type \in {"social", "reddit", "forum"} THEN "Social"
    ELSE IF source_type = "financial" THEN "Financial"
    ELSE "none"

calculate_source_distribution(supporting_signal_ids, supporting) ==
    [b \in {"News", "Social", "Financial"} |->
        Cardinality({i \in DOMAIN supporting :
            /\ supporting[i].id \in Range(supporting_signal_ids)
            /\ SourceBucket(supporting[i].source_type) = b})]

PrimarySignal(t, ids, supporting) ==
    [key |-> t.key, id |-> t.id, risk_level |-> t.risk_level,
     supporting_signal_ids |-> ids,
     source_distribution |-> calculate_source_distribution(ids, supporting),
     risk_score |-> Unset, risk_reasoning |-> "unset"]

\* as if the categories without a signal were returned too
FilterBuckets_KeepEmpty(taxonomy, b, supporting) ==
    [i \in DOMAIN taxonomy |->
        PrimarySignal(taxonomy[i], b[taxonomy[i].key], supporting)]

\* lines 941-949: drop the empty categories, keep the dict's order
RECURSIVE FilterBuckets(_, _, _)
FilterBuckets(taxonomy, b, supporting) ==
    IF taxonomy = <<>> THEN <<>>
    ELSE IF b[Head(taxonomy).key] # <<>>
         THEN <<PrimarySignal(Head(taxonomy), b[Head(taxonomy).key], supporting)>>
              \o FilterBuckets(Tail(taxonomy), b, supporting)
         ELSE FilterBuckets(Tail(taxonomy), b, supporting)

\* as if the default bucket also received every id sent elsewhere
AssignToBucket_AlsoDefault(b, category, id) ==
    IF category = "MARKET_PERCEPTION"
    THEN [b EXCEPT ![category] = Append(@, id)]
    ELSE [b EXCEPT ![category] = Append(@, id),
                   !["MARKET_PERCEPTION"] = Append(@, id)]

\* primary_signals[category]['supporting_signal_ids'].append(signal['id'])
AssignToBucket(b, category, id) ==
    [b EXCEPT ![category] = Append(@, id)]

\* one iteration of the loop at lines 924-939
ClassifySignal ==
    /\ pc = "classify"
    /\ idx < Len(supporting_signals)
    /\ \E resp \in ClassifyResponses :
          LET signal == supporting_signals[idx + 1]
              category == classify_single_signal(resp, CategoryKeys)
              target == IF category \in CategoryKeys THEN category
                        ELSE "MARKET_PERCEPTION"
          IN /\ buckets' = AssignToBucket(buckets, target, signal.id)
             /\ response' = resp
    /\ idx' = idx + 1
    /\ UNCHANGED <<pc, news_signals, social_signals, financial_data,
                   financial_insights, supporting_signals, primary_signals,
                   overall_risk_score, major_hypothesis, risk_summary,
                   data_sources, path, error, debug_files, other_run,
                   caller_signals, oracle, runs, dump_manager>>

\* lines 851-852 (nothing to group) and 941-952 (the loop is over)
ClassifyFinish ==
    /\ pc = "classify"
    /\ idx = Len(supporting_signals)
    /\ primary_signals' = FilterBuckets(Taxonomy, buckets, supporting_signals)
    \* lines 97-98: dumps/debug/primary_signals.json
    /\ debug_files' = [debug_files EXCEPT !.primary_signals =
          FileOf(FilterBuckets(Taxonomy, buckets, supporting_signals))]
    /\ buckets' = EmptyBuckets
    /\ idx' = 0
    /\ response' = NoResponse
    /\ pc' = AfterStage("classify")
    /\ UNCHANGED <<news_signals, social_signals, financial_data,
                   financial_insights, supporting_signals, overall_risk_score,
                   major_hypothesis, risk_summary, data_sources, path, error,
                   other_run, caller_signals, oracle, runs, dump_manager>>

\* --------------------------------------------------------- audit (101-154)
\* sorted() on id strings: "ss_3" < "ss_financial_1" ('3' < 'f'), and within
\* one prefix the order of the numbers while they have one digit
IdLess(a, b) ==
    IF a[1] = b[1] THEN a[2] < b[2] ELSE a[1] = "ss"

RECURSIVE SortIds(_)
SortIds(S) ==
    IF S = {} THEN <<>>
    ELSE LET m == CHOOSE x \in S : \A y \in S \ {x} : IdLess(x, y)
         IN <<m>> \o SortIds(S \ {m})

AssignedIds(primary) ==
    UNION {Range(primary[i].supporting_signal_ids) : i \in DOMAIN primary}

UnassignedIds(primary, supporting) ==
    {supporting[i].id : i \in DOMAIN supporting} \ AssignedIds(primary)

\* min(primary_signals, key=len(ids)): the first of the smallest
SmallestIndex(primary) ==
    CHOOSE i \in DOMAIN primary :
        /\ \A j \in DOMAIN primary :
              Len(primary[i].supporting_signal_ids) <= Len(primary[j].supporting_signal_ids)
        /\ \A j \in 1..(i - 1) :
              Len(primary[j].supporting_signal_ids) > Len(primary[i].supporting_signal_ids)

\* lines 134-152; no taxonomy title contains 'other', so the catch-all
\* search at line 137 finds nothing
ForceAssign(primary, supporting) ==
    LET k == SmallestIndex(primary)
        extended == [primary EXCEPT ![k].supporting_signal_ids =
                        @ \o SortIds(UnassignedIds(primary, supporting))]
    IN [i \in DOMAIN extended |->
           [extended[i] EXCEPT !.source_distribution =
               calculate_source_distribution(extended[i].supporting_signal_ids,
                                             supporting)]]

\* lines 109-124: the dict written to assignment_analysis.json
AssignmentReport(primary, supporting) ==
    [total_supporting_signals |-> Len(supporting),
     total_assigned |-> Cardinality(AssignedIds(primary)),
     unassigned_signal_ids |-> UnassignedIds(primary, supporting),
     primary_signal_assignments |->
        [i \in DOMAIN primary |->
            [primary_id |-> primary[i].id,
             assigned_ids |-> primary[i].supporting_signal_ids]]]

Audit ==
    /\ pc = "audit"
    \* lines 126-127, before the check of line 129
    /\ debug_files' = [debug_files EXCEPT !.assignment_analysis =
          FileOf(<<AssignmentReport(primary_signals, supporting_signals)>>)]
    /\ IF UnassignedIds(primary_signals, supporting_signals) = {}
       THEN /\ primary_signals' = primary_signals
            /\ pc' = AfterStage("audit")
            /\ error' = error
       ELSE IF primary_signals = <<>>
       THEN \* min() of an empty list
            /\ primary_signals' = primary_signals
            /\ pc' = "raised"
            /\ error' = "ValueError"
       ELSE /\ primary_signals' = ForceAssign(primary_signals, supporting_signals)
            /\ pc' = AfterStage("audit")
            /\ error' = error
    /\ UNCHANGED <<news_signals, social_signals, financial_data,
                   financial_insights, supporting_signals, buckets, idx,
                   response, overall_risk_score, major_hypothesis,
                   risk_summary, data_sources, path, other_run,
                   caller_signals, oracle, runs, dump_manager>>

\* ------------------------------------------- step 4a: supporting scores
MaxSignals == MaxNews + MaxSocial + MaxInsights

\* the risk_score values an answer carries, by the position of the signal
\* it names; Unset is an entry without a 'risk_score' key
ScorePatterns ==
    {[i \in 1..MaxSignals |-> IF i = 3 THEN Num(25) ELSE Num(20)],
     [i \in 1..MaxSignals |-> Half(72)],
     [i \in 1..MaxSignals |-> IF i = 1 THEN Num(150) ELSE Unset],
     [i \in 1..MaxSignals |-> IF i = 1 THEN NonNumeric ELSE Num(40)]}

ScoreEntries(ids, pattern) ==
    [i \in DOMAIN ids |-> [id |-> ids[i], risk_score |-> pattern[i]]]

\* the Oracle's answers to a scoring prompt over the signals `ids`:
\* entries is the 'scored_signals' / 'scored_primary_signals' list
ScoringResponses(ids, unknownId) ==
    {[kind |-> k, entries |-> <<>>] :
        \* query raises; json.loads raises; result.get raises; s['id'] raises
        k \in {"raise", "text", "json_list", "json_strings"}}
    \cup {[kind |-> "json", entries |-> ScoreEntries(ids, p)] : p \in ScorePatterns}
    \* an answer about an id the run does not have
    \cup {[kind |-> "json", entries |-> <<[id |-> unknownId, risk_score |-> Num(90)]>>]}

\* {s['id']: s for s in entries}.get(id, {}).get('risk_score', default):
\* the last entry with that id wins
RECURSIVE LookupScore(_, _, _)
LookupScore(entries, id, default) ==
    IF entries = <<>> THEN default
    ELSE LET last == entries[Len(entries)]
         IN IF last.id = id
            THEN (IF last.risk_score = Unset THEN default ELSE last.risk_score)
            ELSE LookupScore(SubSeq(entries, 1, Len(entries) - 1), id, default)

HasEntry(entries, id) == \E i \in DOMAIN entries : entries[i].id = id

\* as if every severity were scored as medium
SeverityScore_Flat(severity) == Num(50)

\* severity_scores.get(signal.get('severity', 'medium'), 50)
SeverityScore(severity) ==
    IF severity = "high" THEN Num(75)
    ELSE IF severity = "medium" THEN Num(50)
    ELSE IF severity = "low" THEN Num(25)
    ELSE Num(50)

\* as if only the signals the answer names were returned
ScoreSupportingOracle_OnlyAnswered(supporting, entries) ==
    LET Answered(s) == HasEntry(entries, s.id)
        kept == SelectSeq(supporting, Answered)
    IN [i \in DOMAIN kept |->
           [kept[i] EXCEPT
               !.risk_score = LookupScore(entries, kept[i].id, Num(50)),
               !.risk_reasoning = "oracle reasoning"]]

\* lines 1241-1254
ScoreSupportingOracle(supporting, entries) ==
    [i \in DOMAIN supporting |->
        [supporting[i] EXCEPT
            !.risk_score = LookupScore(entries, supporting[i].id, Num(50)),
            !.risk_reasoning =
                IF HasEntry(entries, supporting[i].id) THEN "oracle reasoning"
                ELSE "Risk assessment pending"]]

\* lines 1256-1263
ScoreSupportingFallback(supporting) ==
    [i \in DOMAIN supporting |->
        [supporting[i] EXCEPT
            !.risk_score = SeverityScore(supporting[i].severity),
            !.risk_reasoning = "Default risk assessment based on severity"]]

SupportingIds == [i \in DOMAIN supporting_signals |-> supporting_signals[i].id]

ScoreSupporting ==
    /\ pc = "score_supporting"
    /\ IF supporting_signals = <<>>
       THEN UNCHANGED <<supporting_signals, path>>
       ELSE \E resp \in ScoringResponses(SupportingIds, SsId(9)) :
              IF resp.kind = "json"
              THEN /\ supporting_signals' =
                         ScoreSupportingOracle(supporting_signals, resp.entries)
                   /\ path' = [path EXCEPT !.supporting = "oracle"]
              ELSE /\ supporting_signals' =
                         ScoreSupportingFallback(supporting_signals)
                   /\ path' = [path EXCEPT !.supporting = "fallback"]
    /\ pc' = AfterStage("score_supporting")
    /\ UNCHANGED <<news_signals, social_signals, financial_data,
                   financial_insights, buckets, idx, response,
                   primary_signals, overall_risk_score, major_hypothesis,
                   risk_summary, data_sources, error, debug_files, other_run,
                   caller_signals, oracle, runs, dump_manager>>

\* ---------------------------------------------- step 4b: primary scores
\* int(x) for the rational n/d, d > 0: truncation toward zero
IntOf(n, d) == IF n >= 0 THEN n \div d ELSE -((-n) \div d)

Min(a, b) == IF a <= b THEN a ELSE b

\* [supporting_map[sid]['risk_score'] for sid in supporting_ids if sid in supporting_map]
SupportingScores(supporting_ids, supporting) ==
    LET ScoreOf(sid) ==
            supporting[CHOOSE i \in DOMAIN supporting :
                          \* the dict keeps the last signal with that id
                          /\ supporting[i].id = sid
                          /\ \A j \in DOMAIN supporting :
                                supporting[j].id = sid => j <= i].risk_score
        known == SelectSeq2(supporting_ids,
                            {supporting[i].id : i \in DOMAIN supporting})
    IN [i \in DOMAIN known |-> ScoreOf(known[i])]

\* as if the result were round()ed instead of int()ed
FallbackPrimaryScore_Rounded(scores) ==
    LET n == Len(scores)
        volume_boost == Min(n * 2, 10)
        num == SeqSum([i \in DOMAIN scores |-> scores[i].h]) + 2 * n * volume_boost
        den == 2 * n
    IN IF num >= 100 * den THEN 100 ELSE IntOf(2 * num + den, 2 * den)

\* lines 1351-1354: int(min(sum/len + min(2*len, 10), 100)), with the scores
\* held as halves
FallbackPrimaryScore(scores) ==
    LET n == Len(scores)
        volume_boost == Min(n * 2, 10)
        num == SeqSum([i \in DOMAIN scores |-> scores[i].h]) + 2 * n * volume_boost
        den == 2 * n
    IN IF num >= 100 * den THEN 100 ELSE IntOf(num, den)

\* sum() over a list holding a value that is not a number raises TypeError
Summable(scores) == \A i \in DOMAIN scores : IsNumber(scores[i])

\* one iteration of the loop at lines 1348-1359
FallbackScorePrimary(primary, supporting) ==
    LET scores == SupportingScores(primary.supporting_signal_ids, supporting)
    IN IF scores # <<>>
       THEN [primary EXCEPT
                !.risk_score = Num(FallbackPrimaryScore(scores)),
                !.risk_reasoning = "Calculated from supporting signals"]
       ELSE [primary EXCEPT
                !.risk_score = Num(50),
                !.risk_reasoning = "No supporting signals available for scoring"]

\* the first primary signal whose scores cannot be summed, or 0
FirstUnsummable(primary, supporting) ==
    LET bad == {i \in DOMAIN primary :
                   ~Summable(SupportingScores(primary[i].supporting_signal_ids,
                                              supporting))}
    IN IF bad = {} THEN 0 ELSE CHOOSE i \in bad : \A j \in bad : i <= j

\* lines 1345-1360: the loop writes in place and stops where sum() raises
ScorePrimaryFallback(primary, supporting) ==
    LET stop == FirstUnsummable(primary, supporting)
    IN [i \in DOMAIN primary |->
           IF stop = 0 \/ i < stop THEN FallbackScorePrimary(primary[i], supporting)
           ELSE primary[i]]

\* as if the level were set again from the score
ScorePrimaryOracle_LevelFromScore(primary, entries) ==
    [i \in DOMAIN primary |->
        LET score == LookupScore(entries, primary[i].id, Num(60))
        IN [primary[i] EXCEPT
               !.risk_score = score,
               !.risk_reasoning =
                   IF HasEntry(entries, primary[i].id) THEN "oracle reasoning"
                   ELSE "Risk assessment pending",
               !.risk_level = IF score.h >= 2 * 70 THEN "high"
                              ELSE IF score.h >= 2 * 40 THEN "medium"
                              ELSE "low"]]

\* lines 1330-1343
ScorePrimaryOracle(primary, entries) ==
    [i \in DOMAIN primary |->
        [primary[i] EXCEPT
            !.risk_score = LookupScore(entries, primary[i].id, Num(60)),
            !.risk_reasoning =
                IF HasEntry(entries, primary[i].id) THEN "oracle reasoning"
                ELSE "Risk assessment pending"]]

PrimaryIds == [i \in DOMAIN primary_signals |-> primary_signals[i].id]

ScorePrimary ==
    /\ pc = "score_primary"
    /\ IF primary_signals = <<>>
       THEN /\ pc' = AfterStage("score_primary")
            /\ UNCHANGED <<primary_signals, path, error>>
       ELSE \E resp \in ScoringResponses(PrimaryIds, PsId(9)) :
              IF resp.kind = "json"
              THEN /\ primary_signals' =
                         ScorePrimaryOracle(primary_signals, resp.entries)
                   /\ path' = [path EXCEPT !.primary = "oracle"]
                   /\ pc' = AfterStage("score_primary")
                   /\ error' = error
              ELSE /\ primary_signals' =
                         ScorePrimaryFallback(primary_signals, supporting_signals)
                   /\ path' = [path EXCEPT !.primary = "fallback"]
                   /\ IF FirstUnsummable(primary_signals, supporting_signals) = 0
                      THEN pc' = AfterStage("score_primary") /\ error' = error
                      ELSE pc' = "raised" /\ error' = "TypeError"
    /\ UNCHANGED <<news_signals, social_signals, financial_data,
                   financial_insights, supporting_signals, buckets, idx,
                   response, overall_risk_score, major_hypothesis,
                   risk_summary, data_sources, debug_files, other_run,
                   caller_signals, oracle, runs, dump_manager>>

\* ------------------------------------------------- step 5: overall score
\* the Oracle's answers to the overall prompt; json.loads(response) is
\* returned as it is, whatever it holds
OverallResponses ==
    {[kind |-> "raise", value |-> NoOverall],
     [kind |-> "text", value |-> NoOverall],
     \* a JSON list: valid JSON that is no dict
     [kind |-> "json_list", value |-> NoOverall],
     [kind |-> "json", value |-> [score |-> Num(85), level |-> "severe",
                                  confidence |-> "high"]],
     \* a level that is not the band of the score
     [kind |-> "json", value |-> [score |-> Num(85), level |-> "low",
                                  confidence |-> "certain"]],
     \* "level": null
     [kind |-> "json", value |-> [score |-> Num(120), level |-> "<null>",
                                  confidence |-> "high"]]}

\* sum(p.get('risk_score', 50) for p in primary_signals)
PrimaryScores(primary) ==
    [i \in DOMAIN primary |->
        IF primary[i].risk_score = Unset THEN Num(50) ELSE primary[i].risk_score]

\* as if the score were round()ed instead of int()ed
OverallFallback_Rounded(primary) ==
    LET scores == PrimaryScores(primary)
        num == SeqSum([i \in DOMAIN scores |-> scores[i].h])
        den == 2 * Len(scores)
    IN [shape |-> "dict",
        score |-> Num(IntOf(2 * num + den, 2 * den)),
        level |-> IF num < 60 * den THEN "moderate" ELSE "high",
        confidence |-> "medium"]

\* lines 1457-1463, with avg = num/den
OverallFallback(primary) ==
    LET scores == PrimaryScores(primary)
        num == SeqSum([i \in DOMAIN scores |-> scores[i].h])
        den == 2 * Len(scores)
    IN [shape |-> "dict",
        score |-> Num(IntOf(num, den)),
        level |-> IF num < 60 * den THEN "moderate" ELSE "high",
        confidence |-> "medium"]

InsufficientOverall ==
    [shape |-> "dict", score |-> Num(0), level |-> "minimal", confidence |-> "low"]

\* the prompt's f-string (line 1405) compares s.get('risk_score', 0) >= 70
\* for every supporting signal, before the try
OverallPromptRaises(supporting) ==
    \E i \in DOMAIN supporting :
        supporting[i].risk_score # Unset /\ ~IsNumber(supporting[i].risk_score)

Synthesize ==
    /\ pc = "synthesize"
    /\ IF primary_signals = <<>>
       THEN /\ overall_risk_score' = InsufficientOverall
            /\ pc' = AfterStage("synthesize")
            /\ UNCHANGED <<path, error>>
       ELSE IF OverallPromptRaises(supporting_signals)
       THEN /\ pc' = "raised"
            /\ error' = "TypeError"
            /\ UNCHANGED <<overall_risk_score, path>>
       ELSE \E resp \in OverallResponses :
              IF resp.kind \in {"json", "json_list"}
              THEN /\ overall_risk_score' =
                         [shape |-> IF resp.kind = "json" THEN "dict" ELSE "list",
                          score |-> resp.value.score,
                          level |-> resp.value.level,
                          confidence |-> resp.value.confidence]
                   /\ path' = [path EXCEPT !.overall = "oracle"]
                   /\ pc' = AfterStage("synthesize")
                   /\ error' = error
              ELSE /\ path' = [path EXCEPT !.overall = "fallback"]
                   /\ IF Summable(PrimaryScores(primary_signals))
                      THEN /\ overall_risk_score' = OverallFallback(primary_signals)
                           /\ pc' = AfterStage("synthesize")
                           /\ error' = error
                      ELSE /\ overall_risk_score' = overall_risk_score
                           /\ pc' = "raised"
                           /\ error' = "TypeError"
    /\ UNCHANGED <<news_signals, social_signals, financial_data,
                   financial_insights, supporting_signals, buckets, idx,
                   response, primary_signals, major_hypothesis, risk_summary,
                   data_sources, debug_files, other_run, caller_signals,
                   oracle, runs, dump_manager>>

\* ------------------------------------------------------ step 6: narrative
\* the Oracle's answers to the narrative prompt
NarrativeResponses == {"raise", "text", "json_list", "json"}

\* the prompt's f-string (line 1487) calls overall_risk_score.get('score')
\* and overall_risk_score.get('level', 'unknown').upper() before the try
PromptRaises(overall) ==
    overall.shape # "dict" \/ overall.level = "<null>"

Narrate ==
    /\ pc = "narrate"
    /\ IF primary_signals = <<>>
       THEN /\ major_hypothesis' = "Insufficient data to generate comprehensive hypothesis"
            /\ pc' = AfterStage("narrate")
            /\ UNCHANGED <<path, error>>
       ELSE IF PromptRaises(overall_risk_score)
       THEN /\ pc' = "raised"
            /\ error' = "AttributeError"
            /\ UNCHANGED <<major_hypothesis, path>>
       ELSE \E resp \in NarrativeResponses :
              /\ major_hypothesis' =
                    IF resp = "json" THEN "oracle narrative"
                    ELSE "fallback narrative"
              /\ path' = [path EXCEPT !.narrative =
                             IF resp = "json" THEN "oracle" ELSE "fallback"]
              /\ pc' = AfterStage("narrate")
              /\ error' = error
    /\ UNCHANGED <<news_signals, social_signals, financial_data,
                   financial_insights, supporting_signals, buckets, idx,
                   response, primary_signals, overall_risk_score,
                   risk_summary, data_sources, debug_files, other_run,
                   caller_signals, oracle, runs, dump_manager>>

\* -------------------------------------------------------- step 7: summary
\* _get_recommendation
get_recommendation(risk_level) ==
    IF risk_level = "high"
    THEN "Immediate attention required. Consider detailed due diligence and risk mitigation strategies."
    ELSE IF risk_level = "medium"
    THEN "Monitor closely. Review specific risk areas and develop contingency plans."
    ELSE IF risk_level = "low"
    THEN "Maintain standard monitoring procedures. Continue tracking key indicators."
    ELSE "Continue monitoring"

\* lines 1154-1161: the two thresholds, h >= t * 0.6 and h >= t * 0.3; the
\* float products agree with 10h >= 6t and 10h >= 3t for every t up to 2000
OverallRisk(high_risk_count, total_signals) ==
    IF 10 * high_risk_count >= 6 * total_signals THEN "high"
    ELSE IF 10 * high_risk_count >= 3 * total_signals THEN "medium"
    ELSE "low"

\* as if the early return for an empty list were missing
generate_risk_summary_NoEmptyCase(primary) ==
    LET high_risk_count ==
            Cardinality({i \in DOMAIN primary : primary[i].risk_level = "high"})
        total_signals == Len(primary)
        overall_risk == OverallRisk(high_risk_count, total_signals)
    IN [overall_risk |-> overall_risk,
        confidence |-> IF total_signals >= 3 THEN "high" ELSE "medium",
        recommendation |-> get_recommendation(overall_risk)]

\* as if the 'high' threshold were one half of the signals
generate_risk_summary_HalfThreshold(primary) ==
    IF primary = <<>>
    THEN [overall_risk |-> "low", confidence |-> "low",
          recommendation |-> "Gather more data from multiple sources"]
    ELSE LET high_risk_count ==
                 Cardinality({i \in DOMAIN primary : primary[i].risk_level = "high"})
             total_signals == Len(primary)
             overall_risk ==
                 IF 10 * high_risk_count >= 5 * total_signals THEN "high"
                 ELSE IF 10 * high_risk_count >= 3 * total_signals THEN "medium"
                 ELSE "low"
         IN [overall_risk |-> overall_risk,
             confidence |-> IF total_signals >= 3 THEN "high" ELSE "medium",
             recommendation |-> get_recommendation(overall_risk)]

\* _generate_risk_summary
generate_risk_summary(primary) ==
    IF primary = <<>>
    THEN [overall_risk |-> "low", confidence |-> "low",
          recommendation |-> "Gather more data from multiple sources"]
    ELSE LET high_risk_count ==
                 Cardinality({i \in DOMAIN primary : primary[i].risk_level = "high"})
             total_signals == Len(primary)
             overall_risk == OverallRisk(high_risk_count, total_signals)
         IN [overall_risk |-> overall_risk,
             confidence |-> IF total_signals >= 3 THEN "high" ELSE "medium",
             recommendation |-> get_recommendation(overall_risk)]

\* lines 196-200: len(news_signals), len(social_signals) and
\* `financial_data is not None`
DataSources(news, social, fin) ==
    [news_count |-> Len(news), social_count |-> Len(social),
     has_financial_data |-> fin # "none"]

\* lines 184-202: the summary, then the return
Summarize ==
    /\ pc = "summarize"
    /\ risk_summary' = generate_risk_summary(primary_signals)
    /\ data_sources' = DataSources(news_signals, social_signals, financial_data)
    /\ pc' = AfterStage("summarize")
    /\ UNCHANGED <<news_signals, social_signals, financial_data,
                   financial_insights, supporting_signals, buckets, idx,
                   response, primary_signals, overall_risk_score,
                   major_hypothesis, path, error, debug_files, other_run,
                   caller_signals, oracle, runs, dump_manager>>

Next ==
    \/ Normalize
    \/ ValidateCount
    \/ Extract
    \/ ClassifySignal
    \/ ClassifyFinish
    \/ Audit
    \/ ScoreSupporting
    \/ ScorePrimary
    \/ Synthesize
    \/ Narrate
    \/ Summarize

Spec == Init /\ [][Next]_vars

\* ----------------------------------------- the normalizer on longer lists
InitNormalize ==
    /\ pc = "normalize"
    /\ news_signals \in SeqsUpTo(NewsRecords, MaxRaw)
    /\ social_signals \in SeqsUpTo(SocialRecords, MaxRaw)
    /\ financial_data \in FinancialInputs
    /\ supporting_signals = <<>>
    /\ financial_insights = <<>>
    /\ buckets = EmptyBuckets
    /\ idx = 0
    /\ response = NoResponse
    /\ primary_signals = <<>>
    /\ overall_risk_score = NoOverall
    /\ major_hypothesis = "unset"
    /\ risk_summary = NoSummary
    /\ data_sources = NoDataSources
    /\ debug_files = NoDebugFiles
    /\ other_run = "none"
    /\ caller_signals = NoCaller
    /\ oracle = NoAnswers
    /\ runs = <<>>
    /\ dump_manager = NoDumps
    /\ path = NoPath
    /\ error = "none"

NextNormalize == Normalize \/ ValidateCount

SpecNormalize == InitNormalize /\ [][NextNormalize]_vars

\* ------------------------------- the financial stage on longer answers
ExtractLong == ExtractWith(FinancialResponsesUpTo(MaxExtracted))

NextExtract == Normalize \/ ValidateCount \/ ExtractLong

SpecExtract == InitNormalize /\ [][NextExtract]_vars

\* ------------------------------- the run with the normalizer's result open
\* lines 51-53 as analyze_company_risk sees them: a list comes back from
\* the method, which a subclass or a test double may replace; the faithful
\* list, the list short of its last signal, and the list with one signal
\* too many
NormalizerOutputs(news, social) ==
    LET faithful == create_supporting_signals_from_raw_signals(news, social)
    IN {faithful,
        Append(faithful, SupportingSignal(SsId(Len(faithful) + 1), "news", "medium", ""))}
       \cup (IF faithful = <<>> THEN {}
             ELSE {SubSeq(faithful, 1, Len(faithful) - 1)})

NormalizeOverridden ==
    /\ pc = "normalize"
    /\ supporting_signals' \in NormalizerOutputs(news_signals, social_signals)
    /\ pc' = AfterStage("normalize")
    /\ UNCHANGED <<news_signals, social_signals, financial_data,
                   financial_insights, buckets, idx, response,
                   primary_signals, overall_risk_score, major_hypothesis,
                   risk_summary, data_sources, path, error, debug_files,
                   other_run, caller_signals, oracle, runs, dump_manager>>

NextGuard ==
    \/ NormalizeOverridden
    \/ ValidateCount
    \/ Extract
    \/ ClassifySignal
    \/ ClassifyFinish
    \/ Audit
    \/ ScoreSupporting
    \/ ScorePrimary
    \/ Synthesize
    \/ Narrate
    \/ Summarize

SpecGuard == Init /\ [][NextGuard]_vars

\* ------------------------------------------- the summary on longer lists
\* the j-th smallest member of a set of taxonomy positions
NthOf(cats, j) == CHOOSE c \in cats : Cardinality({d \in cats : d < c}) = j - 1

\* _generate_risk_summary is reached at line 184 with the scored primary
\* signals. The state there of a run over Cardinality(cats) news records,
\* the j-th classified into the j-th category of cats, in which every
\* Oracle call after classification failed
SummaryArguments(cats) ==
    LET k == Cardinality(cats)
        news == [j \in 1..k |-> [source_type |-> Absent]]
        supporting == ScoreSupportingFallback(
                          create_supporting_signals_from_raw_signals(news, <<>>))
        b == [c \in CategoryKeys |->
                 IF \E j \in 1..k : Taxonomy[NthOf(cats, j)].key = c
                 THEN <<SsId(CHOOSE j \in 1..k : Taxonomy[NthOf(cats, j)].key = c)>>
                 ELSE <<>>]
        primary == ScorePrimaryFallback(FilterBuckets(Taxonomy, b, supporting),
                                        supporting)
        \* what lines 84-127 wrote on the way
        dumped == create_supporting_signals_from_raw_signals(news, <<>>)
        files == [supporting_signals |-> FileOf(dumped),
                  primary_signals |-> FileOf(FilterBuckets(Taxonomy, b, dumped)),
                  assignment_analysis |->
                      FileOf(<<AssignmentReport(FilterBuckets(Taxonomy, b, dumped),
                                                dumped)>>)]
    IN [news |-> news, supporting |-> supporting, primary |-> primary,
        files |-> files]

InitSummary ==
    /\ pc = "summarize"
    /\ \E cats \in SUBSET (DOMAIN Taxonomy) :
          LET a == SummaryArguments(cats)
          IN /\ news_signals = a.news
             /\ supporting_signals = a.supporting
             /\ primary_signals = a.primary
             /\ debug_files = a.files
             /\ overall_risk_score =
                   (IF cats = {} THEN InsufficientOverall
                    ELSE OverallFallback(a.primary))
             /\ major_hypothesis =
                   (IF cats = {}
                    THEN "Insufficient data to generate comprehensive hypothesis"
                    ELSE "fallback narrative")
             /\ path = (IF cats = {} THEN NoPath
                        ELSE [extract |-> "none", supporting |-> "fallback",
                              primary |-> "fallback", overall |-> "fallback",
                              narrative |-> "fallback"])
    /\ social_signals = <<>>
    /\ financial_data = "none"
    /\ financial_insights = <<>>
    /\ buckets = EmptyBuckets
    /\ idx = 0
    /\ response = NoResponse
    /\ risk_summary = NoSummary
    /\ data_sources = NoDataSources
    /\ other_run = "none"
    /\ caller_signals = NoCaller
    /\ oracle = NoAnswers
    /\ runs = <<>>
    /\ dump_manager = NoDumps
    /\ error = "none"

NextSummary == Summarize

SpecSummary == InitSummary /\ [][NextSummary]_vars

\* ------------------------------------------- a second run on the engine
\* main.py shares one HypothesisEngine between the requests. A second run of
\* analyze_company_risk, for another company, shares with this run what it
\* writes outside its own locals: the three files of lines 84-127, at paths
\* that do not depend on the company. Its input is two news records, both
\* classified WORKFORCE_ISSUES.
OtherSupporting ==
    create_supporting_signals_from_raw_signals(
        <<[source_type |-> Absent], [source_type |-> "press"]>>, <<>>)

OtherPrimary ==
    FilterBuckets(Taxonomy,
                  [EmptyBuckets EXCEPT !["WORKFORCE_ISSUES"] = <<SsId(1), SsId(2)>>],
                  OtherSupporting)

\* the statement of the second run that follows each of its writes
AfterDump(stage) ==
    IF stage = "started" THEN "dumped_supporting"
    ELSE IF stage = "dumped_supporting" THEN "dumped_primary"
    ELSE "dumped_assignment"

\* the second run reaches its next open(..., 'w') / json.dump
OtherRunDumps ==
    /\ other_run \in {"started", "dumped_supporting", "dumped_primary"}
    /\ debug_files' =
          IF other_run = "started"
          THEN [debug_files EXCEPT !.supporting_signals = FileOf(OtherSupporting)]
          ELSE IF other_run = "dumped_supporting"
          THEN [debug_files EXCEPT !.primary_signals = FileOf(OtherPrimary)]
          ELSE [debug_files EXCEPT !.assignment_analysis =
                   FileOf(<<AssignmentReport(OtherPrimary, OtherSupporting)>>)]
    /\ other_run' = AfterDump(other_run)
    /\ UNCHANGED <<pc, news_signals, social_signals, financial_data,
                   supporting_signals, financial_insights, buckets, idx,
                   response, primary_signals, overall_risk_score,
                   major_hypothesis, risk_summary, data_sources, path, error,
                   caller_signals, oracle, runs, dump_manager>>

\* this run, over one news record, with the second run under way
InitConcurrent ==
    /\ pc = "normalize"
    /\ news_signals \in [1..1 -> NewsRecords]
    /\ social_signals = <<>>
    /\ financial_data = "none"
    /\ supporting_signals = <<>>
    /\ financial_insights = <<>>
    /\ buckets = EmptyBuckets
    /\ idx = 0
    /\ response = NoResponse
    /\ primary_signals = <<>>
    /\ overall_risk_score = NoOverall
    /\ major_hypothesis = "unset"
    /\ risk_summary = NoSummary
    /\ data_sources = NoDataSources
    /\ debug_files = NoDebugFiles
    /\ other_run = "started"
    /\ caller_signals = NoCaller
    /\ oracle = NoAnswers
    /\ runs = <<>>
    /\ dump_manager = NoDumps
    /\ path = NoPath
    /\ error = "none"

NextConcurrent ==
    \/ Normalize
    \/ ValidateCount
    \/ Extract
    \/ ClassifySignal
    \/ ClassifyFinish
    \/ Audit
    \/ ScoreSupporting
    \/ ScorePrimary
    \/ Synthesize
    \/ Narrate
    \/ Summarize
    \/ OtherRunDumps

SpecConcurrent == InitConcurrent /\ [][NextConcurrent]_vars

\* ------------------------------------------- the scoring stages, re-run
\* A caller holds a list of supporting signals and a list of primary signals
\* and runs the three scoring stages on them as lines 166-177 do, more than
\* once, with an Oracle whose answer is a function of the prompt. The
\* prompts embed json.dumps of the lists (lines 1215, 1291-1294, 1402-1405).
MaxRuns == 2
MaxRescored == 2

\* the lists of a run over k news records at line 166, all of them in the
\* first category or the j-th in the j-th category
RescoreArguments(k, together) ==
    LET news == [j \in 1..k |-> [source_type |-> Absent]]
        supporting == create_supporting_signals_from_raw_signals(news, <<>>)
        b == [c \in CategoryKeys |->
                 IF together
                 THEN (IF c = Taxonomy[1].key THEN [j \in 1..k |-> SsId(j)]
                       ELSE <<>>)
                 ELSE (IF \E j \in 1..k : Taxonomy[j].key = c
                       THEN <<SsId(CHOOSE j \in 1..k : Taxonomy[j].key = c)>>
                       ELSE <<>>)]
    IN [supporting |-> supporting,
        primary |-> FilterBuckets(Taxonomy, b, supporting)]

\* what the Oracle may answer to `prompt`: what it answered before, if it
\* was asked before
Ask(answers, prompt, responses) ==
    IF \E a \in answers : a.prompt = prompt
    THEN {a.answer : a \in {x \in answers : x.prompt = prompt}}
    ELSE responses

Told(answers, prompt, resp) == answers \cup {[prompt |-> prompt, answer |-> resp]}

\* the call raises, or answers the JSON object asked for
RescoreResponses(ids, unknownId) ==
    {r \in ScoringResponses(ids, unknownId) : r.kind \in {"raise", "json"}}

IdsOf(signals) == [i \in DOMAIN signals |-> signals[i].id]

\* the count of line 1405, with the scores held as halves
HighRiskSupporting(supporting) ==
    Cardinality({i \in DOMAIN supporting :
                    /\ supporting[i].risk_score # Unset
                    /\ supporting[i].risk_score.h >= 2 * 70})

InitRescore ==
    /\ pc = "score_supporting"
    /\ \E k \in 0..MaxRescored, together \in BOOLEAN :
          caller_signals = RescoreArguments(k, together)
    /\ oracle = NoAnswers
    /\ runs = <<>>
    /\ dump_manager = NoDumps
    /\ news_signals = <<>>
    /\ social_signals = <<>>
    /\ financial_data = "none"
    /\ supporting_signals = <<>>
    /\ financial_insights = <<>>
    /\ buckets = EmptyBuckets
    /\ idx = 0
    /\ response = NoResponse
    /\ primary_signals = <<>>
    /\ overall_risk_score = NoOverall
    /\ major_hypothesis = "unset"
    /\ risk_summary = NoSummary
    /\ data_sources = NoDataSources
    /\ debug_files = NoDebugFiles
    /\ other_run = "none"
    /\ path = NoPath
    /\ error = "none"

\* _add_ai_risk_scores_to_supporting_signals on the caller's list: the
\* Oracle path returns copies, the fallback writes into the caller's dicts
\* and returns the caller's list
RescoreSupporting ==
    /\ pc = "score_supporting"
    /\ IF caller_signals.supporting = <<>>
       THEN /\ supporting_signals' = <<>>
            /\ UNCHANGED <<caller_signals, oracle>>
       ELSE LET prompt == caller_signals.supporting
            IN \E resp \in Ask(oracle.supporting, prompt,
                               RescoreResponses(IdsOf(prompt), SsId(9))) :
                 /\ oracle' = [oracle EXCEPT
                                  !.supporting = Told(@, prompt, resp)]
                 /\ IF resp.kind = "json"
                    THEN /\ supporting_signals' =
                               ScoreSupportingOracle(prompt, resp.entries)
                         /\ caller_signals' = caller_signals
                    ELSE /\ caller_signals' =
                               [caller_signals EXCEPT
                                   !.supporting = ScoreSupportingFallback(@)]
                         /\ supporting_signals' = ScoreSupportingFallback(prompt)
    /\ pc' = "score_primary"
    /\ UNCHANGED <<news_signals, social_signals, financial_data,
                   financial_insights, buckets, idx, response,
                   primary_signals, overall_risk_score, major_hypothesis,
                   risk_summary, data_sources, debug_files, other_run, runs,
                   path, error, dump_manager>>

\* _add_ai_risk_scores_to_primary_signals on the caller's list and the
\* scored supporting signals
RescorePrimary ==
    /\ pc = "score_primary"
    /\ IF caller_signals.primary = <<>>
       THEN /\ primary_signals' = <<>>
            /\ pc' = "synthesize"
            /\ UNCHANGED <<caller_signals, oracle, error>>
       ELSE LET prompt == [primary |-> caller_signals.primary,
                           supporting |-> supporting_signals]
            IN \E resp \in Ask(oracle.primary, prompt,
                               RescoreResponses(IdsOf(prompt.primary), PsId(9))) :
                 /\ oracle' = [oracle EXCEPT !.primary = Told(@, prompt, resp)]
                 /\ IF resp.kind = "json"
                    THEN /\ primary_signals' =
                               ScorePrimaryOracle(prompt.primary, resp.entries)
                         /\ pc' = "synthesize"
                         /\ UNCHANGED <<caller_signals, error>>
                    ELSE /\ caller_signals' =
                               [caller_signals EXCEPT
                                   !.primary = ScorePrimaryFallback(
                                                   @, supporting_signals)]
                         /\ primary_signals' =
                               ScorePrimaryFallback(prompt.primary,
                                                    supporting_signals)
                         /\ IF FirstUnsummable(prompt.primary,
                                               supporting_signals) = 0
                            THEN pc' = "synthesize" /\ error' = error
                            ELSE pc' = "raised" /\ error' = "TypeError"
    /\ UNCHANGED <<news_signals, social_signals, financial_data,
                   financial_insights, supporting_signals, buckets, idx,
                   response, overall_risk_score, major_hypothesis,
                   risk_summary, data_sources, debug_files, other_run, runs,
                   path, dump_manager>>

\* _calculate_overall_risk_score on what the two stages returned
RescoreOverall ==
    /\ pc = "synthesize"
    /\ IF primary_signals = <<>>
       THEN /\ overall_risk_score' = InsufficientOverall
            /\ pc' = "scored"
            /\ UNCHANGED <<oracle, error>>
       ELSE IF OverallPromptRaises(supporting_signals)
       THEN /\ pc' = "raised"
            /\ error' = "TypeError"
            /\ UNCHANGED <<overall_risk_score, oracle>>
       ELSE LET prompt == [primary |-> primary_signals,
                           count |-> Len(supporting_signals),
                           high_risk |-> HighRiskSupporting(supporting_signals)]
            IN \E resp \in Ask(oracle.overall, prompt,
                               {r \in OverallResponses :
                                   r.kind \in {"raise", "json"}}) :
                 /\ oracle' = [oracle EXCEPT !.overall = Told(@, prompt, resp)]
                 /\ IF resp.kind = "json"
                    THEN /\ overall_risk_score' =
                               [shape |-> "dict",
                                score |-> resp.value.score,
                                level |-> resp.value.level,
                                confidence |-> resp.value.confidence]
                         /\ pc' = "scored"
                         /\ error' = error
                    ELSE IF Summable(PrimaryScores(primary_signals))
                    THEN /\ overall_risk_score' = OverallFallback(primary_signals)
                         /\ pc' = "scored"
                         /\ error' = error
                    ELSE /\ overall_risk_score' = overall_risk_score
                         /\ pc' = "raised"
                         /\ error' = "TypeError"
    /\ UNCHANGED <<news_signals, social_signals, financial_data,
                   financial_insights, supporting_signals, buckets, idx,
                   response, primary_signals, caller_signals,
                   major_hypothesis, risk_summary, data_sources, debug_files,
                   other_run, runs, path, dump_manager>>

\* the caller keeps what the round returned or raised and, up to MaxRuns
\* rounds, runs the stages again on the same lists
Rerun ==
    /\ pc \in {"scored", "raised"}
    /\ runs' = Append(runs, [supporting |-> supporting_signals,
                             primary |-> primary_signals,
                             overall |-> overall_risk_score,
                             error |-> error])
    /\ IF Len(runs) + 1 < MaxRuns
       THEN /\ pc' = "score_supporting"
            /\ supporting_signals' = <<>>
            /\ primary_signals' = <<>>
            /\ overall_risk_score' = NoOverall
            /\ error' = "none"
       ELSE /\ pc' = "done"
            /\ UNCHANGED <<supporting_signals, primary_signals,
                           overall_risk_score, error>>
    /\ UNCHANGED <<news_signals, social_signals, financial_data,
                   financial_insights, buckets, idx, response, caller_signals,
                   oracle, major_hypothesis, risk_summary, data_sources,
                   debug_files, other_run, path, dump_manager>>

NextRescore ==
    \/ RescoreSupporting
    \/ RescorePrimary
    \/ RescoreOverall
    \/ Rerun

SpecRescore == InitRescore /\ [][NextRescore]_vars

\* ------------------------------------------- the normalizer, field by field
\* A raw record as the normalizer reads it: a function from the keys the
\* code looks up to their values, Absent for a key that is missing. The key
\* "metadata" is Absent, "dict" or "<null>" (JSON null); a key "metadata.k"
\* is the entry k of that dict.
MetadataKeys == {"metadata.title", "metadata.publish_date", "metadata.date",
                 "metadata.source_url", "metadata.url", "metadata.link"}
UrlKeys == {"source_url", "source_link", "link", "url"}
NewsKeys == MetadataKeys \cup UrlKeys
               \cup {"headline", "extracted_text", "published_date", "source_type"}
SocialKeys == MetadataKeys \cup UrlKeys
                 \cup {"post_title", "extracted_text", "post_text", "created_date",
                       "published_date", "source_type"}

Body == "Acme will retrench 120 staff at its Jurong plant in March this year. The union was told about the decision on Monday."
\* Body[:60]
BodyHead == "Acme will retrench 120 staff at its Jurong plant in March th"
PostBody == "Heard from a colleague that the whole night shift is being let go."

\* the value a key has when it is present
ValueOf(key, kind) ==
    CASE key = "metadata.title" -> "Meta title"
      [] key = "metadata.publish_date" -> "2024-03-01T10:00:00Z"
      [] key = "metadata.date" -> "May 5-6, 2022"
      [] key = "metadata.source_url" -> "http://meta/source_url"
      [] key = "metadata.url" -> "http://meta/url"
      [] key = "metadata.link" -> "http://meta/link"
      [] key = "source_url" -> "http://source_url"
      [] key = "source_link" -> "http://source_link"
      [] key = "link" -> "http://link"
      [] key = "url" -> "http://url"
      [] key = "headline" -> "Headline"
      [] key = "post_title" -> "Post title"
      [] key = "extracted_text" -> Body
      [] key = "post_text" -> PostBody
      [] key = "published_date" -> "2023"
      [] key = "created_date" -> "2021-07-15"
      [] key = "source_type" -> (IF kind = "news" THEN "press" ELSE "reddit")

\* the record with the keys `present`; metadata is a dict when one of its
\* entries is present and otherwise as `metadata` says
RawRecord(keys, present, metadata, kind) ==
    [k \in keys \cup {"metadata"} |->
        IF k = "metadata"
        THEN (IF present \cap MetadataKeys # {} THEN "dict" ELSE metadata)
        ELSE IF k \in present THEN ValueOf(k, kind)
        ELSE Absent]

\* the subsets of S with at most n members
RECURSIVE SubsetsUpTo(_, _)
SubsetsUpTo(S, n) ==
    IF n <= 0 THEN {{}}
    ELSE LET smaller == SubsetsUpTo(S, n - 1)
         IN smaller \cup {P \cup {x} : P \in smaller, x \in S}

\* the records with at most n keys present
RawRecords(keys, kind, n) ==
    {RawRecord(keys, present, metadata, kind) :
        present \in SubsetsUpTo(keys, n),
        metadata \in {Absent, "dict", "<null>"}}

PresentKeys(signal) ==
    {k \in DOMAIN signal : k # "metadata" /\ signal[k] # Absent}

\* signal.get(key, default)
Get(signal, key, default) ==
    IF signal[key] = Absent THEN default ELSE signal[key]

\* signal.get('metadata', {}).get(key, default) for a metadata that is a
\* dict or missing, and metadata.get(key, default) after line 230: an entry
\* is Absent unless metadata is a dict
MetaGet(signal, key, default) == Get(signal, key, default)

\* a or b
Or(a, b) == IF a = "" THEN b ELSE a

\* text[:60]
First60(text) == IF text = Body THEN BodyHead ELSE text

\* the Oracle's answers to the title prompt: the call fails, a short
\* insight, an empty string, a sentence of more than 8 words
TitleResponses == {"raise", "insight", "empty", "long"}

\* _generate_insight_title
generate_insight_title(full_title, resp) ==
    IF full_title = "" THEN "Untitled signal"
    \* "layoffs announced", first letter capitalized
    ELSE IF resp = "insight" THEN "Layoffs announced"
    \* '' passes len(insight) < 80 and len(insight.split()) <= 8
    ELSE IF resp = "empty" THEN ""
    \* the fallback: ' '.join(full_title.split()), under 150 characters
    ELSE full_title

\* _clean_evidence_text on the texts of this model: the title is cut out
\* where it occurs, then only sentences of more than 20 characters stay
clean_evidence_text(evidence, title) ==
    \* one sentence of 20 characters
    IF evidence = "No content available" THEN ""
    ELSE IF evidence = "" THEN ""
    \* the rest of the first sentence ("is year") is dropped
    ELSE IF evidence = Body /\ title = BodyHead
    THEN "The union was told about the decision on Monday."
    ELSE evidence

\* 'T' in str(date) or '-' in str(date)
HasTOrDash(date) == date \in {"2024-03-01T10:00:00Z", "May 5-6, 2022", "2021-07-15"}

\* str(date)[:4]
First4(date) ==
    CASE date = "2024-03-01T10:00:00Z" -> "2024"
      [] date = "May 5-6, 2022" -> "May "
      [] date = "2021-07-15" -> "2021"
      [] OTHER -> date

\* str(dt.fromisoformat(...).year), or "" where fromisoformat raises
IsoYear(date) ==
    CASE date = "2024-03-01T10:00:00Z" -> "2024"
      [] date = "2021-07-15" -> "2021"
      [] OTHER -> ""

\* lines 250-260
NewsTimeframe(date) ==
    IF date = "" \/ date = "Unknown" THEN "Unknown"
    ELSE IF HasTOrDash(date) THEN First4(date)
    ELSE date

\* lines 310-326
SocialTimeframe(date) ==
    IF date = "" \/ date = "Unknown" THEN "Unknown"
    ELSE IF HasTOrDash(date)
    THEN (IF IsoYear(date) # "" THEN IsoYear(date) ELSE First4(date))
    ELSE First4(date)

\* lines 231-239 and 287-295
EvidenceUrl(signal) ==
    Or(Get(signal, "source_url", ""),
    Or(Get(signal, "source_link", ""),
    Or(Get(signal, "link", ""),
    Or(Get(signal, "url", ""),
    Or(MetaGet(signal, "metadata.source_url", ""),
    Or(MetaGet(signal, "metadata.url", ""),
       MetaGet(signal, "metadata.link", "")))))))

\* as if line 226 read signal['metadata']: a missing key raises too
NewsRaises_Indexing(signal) == signal["metadata"] \in {"<null>", Absent}

\* line 226 calls .get on signal.get('metadata', {}): None has no .get
NewsRaises(signal) == signal["metadata"] = "<null>"

\* line 280 does the same once created_date is missing or empty
SocialRaises(signal) ==
    /\ signal["metadata"] = "<null>"
    /\ Get(signal, "created_date", "") = ""

\* lines 226-270: the dict appended for one news record
NewsSignal(signal, id, resp) ==
    LET full_title == Or(MetaGet(signal, "metadata.title", ""),
                      Or(Get(signal, "headline", ""),
                         First60(Get(signal, "extracted_text", ""))))
        date == Or(MetaGet(signal, "metadata.publish_date", ""),
                Or(Get(signal, "published_date", ""),
                   MetaGet(signal, "metadata.date", "Unknown")))
        evidence_text == Get(signal, "extracted_text", "No content available")
    IN [id |-> id,
        title |-> generate_insight_title(full_title, resp),
        source_type |-> Get(signal, "source_type", "news"),
        timeframe |-> NewsTimeframe(date),
        evidence |-> clean_evidence_text(evidence_text, full_title),
        evidence_url |-> EvidenceUrl(signal),
        severity |-> "medium"]

\* lines 275-336: the dict appended for one social record
SocialSignal(signal, id, resp) ==
    LET full_title == Or(Get(signal, "post_title", ""),
                         First60(Get(signal, "extracted_text", "")))
        date == Or(Get(signal, "created_date", ""),
                Or(MetaGet(signal, "metadata.publish_date", ""),
                Or(MetaGet(signal, "metadata.date", ""),
                Or(Get(signal, "published_date", ""), "Unknown"))))
        evidence_text == Or(Get(signal, "extracted_text", ""),
                            Get(signal, "post_text", "No content available"))
        evidence_url == EvidenceUrl(signal)
    IN [id |-> id,
        title |-> generate_insight_title(full_title, resp),
        source_type |-> Get(signal, "source_type", "social"),
        timeframe |-> SocialTimeframe(date),
        evidence |-> IF evidence_url # "" THEN ""
                     ELSE clean_evidence_text(evidence_text, full_title),
        evidence_url |-> evidence_url,
        severity |-> "medium"]

\* the two loops, the i-th record's title answered by titles[i]
NormalizedFields(news, social, titles) ==
    [i \in 1..(Len(news) + Len(social)) |->
        IF i <= Len(news) THEN NewsSignal(news[i], SsId(i), titles[i])
        ELSE SocialSignal(social[i - Len(news)], SsId(i), titles[i])]

NormalizerRaises(news, social) ==
    \/ \E i \in DOMAIN news : NewsRaises(news[i])
    \/ \E i \in DOMAIN social : SocialRaises(social[i])

\* at most this many keys are present in the records of one run
MaxPresent == 3

InitFields ==
    /\ pc = "normalize"
    /\ news_signals \in SeqsUpTo(RawRecords(NewsKeys, "news", MaxPresent), 1)
    /\ LET used == SeqSum([i \in DOMAIN news_signals |->
                              Cardinality(PresentKeys(news_signals[i]))])
       IN social_signals
             \in SeqsUpTo(RawRecords(SocialKeys, "social", MaxPresent - used), 1)
    /\ financial_data = "none"
    /\ supporting_signals = <<>>
    /\ financial_insights = <<>>
    /\ buckets = EmptyBuckets
    /\ idx = 0
    /\ response = NoResponse
    /\ primary_signals = <<>>
    /\ overall_risk_score = NoOverall
    /\ major_hypothesis = "unset"
    /\ risk_summary = NoSummary
    /\ data_sources = NoDataSources
    /\ debug_files = NoDebugFiles
    /\ other_run = "none"
    /\ caller_signals = NoCaller
    /\ oracle = NoAnswers
    /\ runs = <<>>
    /\ dump_manager = NoDumps
    /\ path = NoPath
    /\ error = "none"

\* lines 51-53 on records with fields
NormalizeFields ==
    /\ pc = "normalize"
    /\ IF NormalizerRaises(news_signals, social_signals)
       THEN /\ pc' = "raised"
            /\ error' = "AttributeError"
            /\ UNCHANGED supporting_signals
       ELSE /\ \E titles \in [1..(Len(news_signals) + Len(social_signals))
                                -> TitleResponses] :
                  supporting_signals' =
                      NormalizedFields(news_signals, social_signals, titles)
            /\ pc' = AfterStage("normalize")
            /\ UNCHANGED error
    /\ UNCHANGED <<news_signals, social_signals, financial_data,
                   financial_insights, buckets, idx, response,
                   primary_signals, overall_risk_score, major_hypothesis,
                   risk_summary, data_sources, path, debug_files, other_run,
                   caller_signals, oracle, runs, dump_manager>>

NextFields == NormalizeFields \/ ValidateCount

SpecFields == InitFields /\ [][NextFields]_vars

\* ------------------------------------------- an answer in a code fence
\* The Oracle's answer as text, a sequence of pieces: "fence_json" is three
\* backticks followed by json, "fence" is three backticks, " " is white
\* space, "{}" is the text of a JSON object and "x" is any other text.
MaxAnswer == 4

\* json.loads(response), as lines 683, 1243, 1332, 1452 and 1526 call it:
\* white space around the document is allowed, anything else raises
json_loads(text) ==
    LET inner == {i \in DOMAIN text : text[i] # " "}
    IN IF Cardinality(inner) = 1 /\ \E i \in inner : text[i] = "{}"
       THEN "{}"
       ELSE "JSONDecodeError"

\* AIService.parse_json_response
parse_json_response(text) ==
    LET strip(s) ==
            LET kept == {i \in DOMAIN s : s[i] # " "}
            IN IF kept = {} THEN <<>>
               ELSE SubSeq(s, CHOOSE i \in kept : \A j \in kept : i <= j,
                              CHOOSE i \in kept : \A j \in kept : j <= i)
        stripped == strip(text)
        opened == IF stripped # <<>> /\ Head(stripped) \in {"fence_json", "fence"}
                  THEN Tail(stripped)
                  ELSE stripped
        closed == IF opened # <<>> /\ opened[Len(opened)] = "fence"
                  THEN SubSeq(opened, 1, Len(opened) - 1)
                  ELSE opened
    IN json_loads(strip(closed))

JsonStages == {"extract", "score_supporting", "score_primary", "synthesize",
               "narrate"}

\* one of the five stages has asked its query; response is the answer
InitFenced ==
    /\ pc \in JsonStages
    /\ response \in UNION {[1..n -> {"fence_json", "fence", " ", "{}", "x"}] :
                              n \in 0..MaxAnswer}
    /\ news_signals = <<>>
    /\ social_signals = <<>>
    /\ financial_data = "none"
    /\ supporting_signals = <<>>
    /\ financial_insights = <<>>
    /\ buckets = EmptyBuckets
    /\ idx = 0
    /\ primary_signals = <<>>
    /\ overall_risk_score = NoOverall
    /\ major_hypothesis = "unset"
    /\ risk_summary = NoSummary
    /\ data_sources = NoDataSources
    /\ debug_files = NoDebugFiles
    /\ other_run = "none"
    /\ caller_signals = NoCaller
    /\ oracle = NoAnswers
    /\ runs = <<>>
    /\ dump_manager = NoDumps
    /\ path = NoPath
    /\ error = "none"

\* try: result = json.loads(response) ... except Exception: the fallback
ParseAnswer ==
    /\ pc \in JsonStages
    /\ LET took == IF json_loads(response) = "{}" THEN "oracle" ELSE "fallback"
       IN path' = IF pc = "extract" THEN [path EXCEPT !.extract = took]
                  ELSE IF pc = "score_supporting"
                  THEN [path EXCEPT !.supporting = took]
                  ELSE IF pc = "score_primary"
                  THEN [path EXCEPT !.primary = took]
                  ELSE IF pc = "synthesize" THEN [path EXCEPT !.overall = took]
                  ELSE [path EXCEPT !.narrative = took]
    /\ pc' = "parsed"
    /\ UNCHANGED <<news_signals, social_signals, financial_data,
                   supporting_signals, financial_insights, buckets, idx,
                   response, primary_signals, overall_risk_score,
                   major_hypothesis, risk_summary, data_sources, debug_files,
                   other_run, caller_signals, oracle, runs, error,
                   dump_manager>>

SpecFenced == InitFenced /\ [][ParseAnswer]_vars

\* ------------------------------------------- an Oracle that does not answer
\* AIService.query (ai_service.py 74-93) hands the prompt to the provider's
\* client and waits for it; neither it nor its callers set a timeout. A
\* query that never returns leaves the run inside the call.
QueryNeverReturns ==
    /\ IF pc = "normalize" THEN news_signals # <<>> \/ social_signals # <<>>
       ELSE IF pc = "classify" THEN idx < Len(supporting_signals)
       ELSE IF pc = "score_supporting" THEN supporting_signals # <<>>
       ELSE IF pc = "score_primary" THEN primary_signals # <<>>
       ELSE IF pc = "synthesize"
       THEN primary_signals # <<>> /\ ~OverallPromptRaises(supporting_signals)
       ELSE IF pc = "narrate"
       THEN primary_signals # <<>> /\ ~PromptRaises(overall_risk_score)
       ELSE FALSE
    /\ pc' = "blocked"
    /\ UNCHANGED <<news_signals, social_signals, financial_data,
                   supporting_signals, financial_insights, buckets, idx,
                   response, primary_signals, overall_risk_score,
                   major_hypothesis, risk_summary, data_sources, debug_files,
                   other_run, caller_signals, oracle, runs, path, error,
                   dump_manager>>

\* a run whose Oracle may fail to return
NextLive ==
    \/ Next
    \/ QueryNeverReturns

\* a run over news records alone
InitLive ==
    /\ Init
    /\ social_signals = <<>>
    /\ financial_data = "none"

\* the interpreter keeps taking the run's own steps, the Oracle owes nothing
SpecLive == InitLive /\ [][NextLive]_vars /\ WF_vars(Next)

\* ------------------------------------------- the audit on any primary list
\* Lines 101-154 read the primary signals as a list of dicts with
\* 'supporting_signal_ids'. The state at line 101 for MaxAudited news records
\* and a primary list built from any id lists for the first MaxBuckets
\* categories: ids may be missing from every list or stand in several.
MaxAudited == 2
MaxBuckets == 3

InitAudit ==
    /\ pc = "audit"
    /\ news_signals = [j \in 1..MaxAudited |-> [source_type |-> Absent]]
    /\ supporting_signals =
          create_supporting_signals_from_raw_signals(news_signals, <<>>)
    /\ \E b \in [CategoryKeys -> {SortIds(S) :
                                    S \in SUBSET {SsId(j) : j \in 1..MaxAudited}}] :
          /\ \A i \in DOMAIN Taxonomy : i > MaxBuckets => b[Taxonomy[i].key] = <<>>
          /\ buckets = b
          /\ primary_signals = FilterBuckets(Taxonomy, b, supporting_signals)
    /\ idx = MaxAudited
    /\ social_signals = <<>>
    /\ financial_data = "none"
    /\ financial_insights = <<>>
    /\ response = NoResponse
    /\ overall_risk_score = NoOverall
    /\ major_hypothesis = "unset"
    /\ risk_summary = NoSummary
    /\ data_sources = NoDataSources
    /\ debug_files = NoDebugFiles
    /\ other_run = "none"
    /\ caller_signals = NoCaller
    /\ oracle = NoAnswers
    /\ runs = <<>>
    /\ dump_manager = NoDumps
    /\ path = NoPath
    /\ error = "none"

SpecAudit == InitAudit /\ [][Audit]_vars

\* ------------------------------------------- the dump manager
\* json_dump_manager.py: a checklist of the dumps written to one directory.
\* An entry is held as its 'id' and its 'filename'.
MaxDumps == 3
Filenames == {"a.json", "b.json", "c.json"}

\* the id of a new entry (line 102)
NextDumpId(dumps) == Len(dumps) + 1

\* dump_data(data, dump_type, metadata, filename); `written` is whether
\* open() and json.dump() at lines 95-96 went through
dump_data ==
    /\ Len(dump_manager.checklist.dumps) < MaxDumps
    /\ \E filename \in Filenames, written \in BOOLEAN :
          dump_manager' =
             IF written
             THEN LET dumps == Append(dump_manager.checklist.dumps,
                                      [id |-> NextDumpId(dump_manager.checklist.dumps),
                                       filename |-> filename])
                  IN [checklist |-> [dumps |-> dumps, total_dumps |-> Len(dumps)],
                      files |-> dump_manager.files \cup {filename}]
             ELSE dump_manager
    /\ UNCHANGED <<pc, news_signals, social_signals, financial_data,
                   supporting_signals, financial_insights, buckets, idx,
                   response, primary_signals, overall_risk_score,
                   major_hypothesis, risk_summary, data_sources, debug_files,
                   other_run, caller_signals, oracle, runs, path, error>>

\* delete_dump(filename); `removed` is whether os.remove at line 181 went
\* through
delete_dump ==
    /\ \E filename \in Filenames, removed \in BOOLEAN :
          dump_manager' =
             IF filename \notin dump_manager.files \/ removed
             THEN LET keep(d) == d.filename # filename
                      dumps == SelectSeq(dump_manager.checklist.dumps, keep)
                  IN [checklist |-> [dumps |-> dumps, total_dumps |-> Len(dumps)],
                      files |-> dump_manager.files \ {filename}]
             ELSE dump_manager
    /\ UNCHANGED <<pc, news_signals, social_signals, financial_data,
                   supporting_signals, financial_insights, buckets, idx,
                   response, primary_signals, overall_risk_score,
                   major_hypothesis, risk_summary, data_sources, debug_files,
                   other_run, caller_signals, oracle, runs, path, error>>

NextDumps ==
    \/ dump_data
    \/ delete_dump

\* the manager of main.py, no analysis running
InitDumps ==
    /\ Init
    /\ news_signals = <<>>
    /\ social_signals = <<>>
    /\ financial_data = "none"

SpecDumps == InitDumps /\ [][NextDumps]_vars

\* ================================================================ claims
TotalInput == Len(news_signals) + Len(social_signals)

SupportingIdSet == {supporting_signals[i].id : i \in DOMAIN supporting_signals}

\* the signals that carry an ss_k id
RawPart == SelectSeq(supporting_signals, LAMBDA x : x.id[1] = "ss")

\* C1: the Normalizer returns one supporting signal per input record, the
\* news records first and then the social records, each in input order, with
\* the ids ss_1 .. ss_n in that order.
C1_NormalizerOneToOne ==
    pc \in {"validate", "extract"} =>
        /\ Len(supporting_signals) = Len(news_signals) + Len(social_signals)
        /\ \A i \in DOMAIN supporting_signals : supporting_signals[i].id = <<"ss", i>>
        /\ \A i \in DOMAIN news_signals :
              supporting_signals[i].source_type =
                 IF news_signals[i].source_type = Absent THEN "news"
                 ELSE news_signals[i].source_type
        /\ \A j \in DOMAIN social_signals :
              supporting_signals[Len(news_signals) + j].source_type =
                 IF social_signals[j].source_type = Absent THEN "social"
                 ELSE social_signals[j].source_type

\* two different news records followed by two different social records
C1_Witness ==
    /\ pc = "validate"
    /\ Len(news_signals) = 2 /\ news_signals[1] # news_signals[2]
    /\ Len(social_signals) = 2 /\ social_signals[1] # social_signals[2]
    /\ Len(supporting_signals) = 4

\* how often an id occurs in the supporting_signal_ids lists
Occurrences(id) ==
    Cardinality({<<i, j>> \in (DOMAIN primary_signals) \X (1..(MaxSignals + 1)) :
                    /\ j \in DOMAIN primary_signals[i].supporting_signal_ids
                    /\ primary_signals[i].supporting_signal_ids[j] = id})

\* C2: in every run that returns, the supporting_signal_ids lists of the
\* primary signals partition the ids of the supporting signals: every id,
\* normalized or financial, occurs exactly once and no other id occurs.
C2_Partition ==
    pc = "returned" =>
        /\ \A id \in SupportingIdSet : Occurrences(id) = 1
        /\ AssignedIds(primary_signals) \subseteq SupportingIdSet
        /\ Cardinality(SupportingIdSet) = Len(supporting_signals)

\* a returned run with three signals, one of them financial, in two or more
\* primary signals, one of which is the default bucket
C2_Witness ==
    /\ pc = "returned"
    /\ Len(supporting_signals) = 3
    /\ <<"ss_financial", 1>> \in SupportingIdSet
    /\ Len(primary_signals) >= 2
    /\ \E i \in DOMAIN primary_signals : primary_signals[i].key = "MARKET_PERCEPTION"

InRange(v) == v.tag = "num" /\ v.h % 2 = 0 /\ 0 <= v.h /\ v.h <= 200

\* C3: in every returned RiskHypothesis every supporting and every primary
\* signal has an integer risk_score with 0 <= risk_score <= 100, whatever the
\* Oracle answered in the two scoring stages.
C3_ScoresInRange ==
    pc = "returned" =>
        /\ \A i \in DOMAIN supporting_signals : InRange(supporting_signals[i].risk_score)
        /\ \A i \in DOMAIN primary_signals : InRange(primary_signals[i].risk_score)

\* C4: for every non-empty input and every behaviour of the Oracle the run
\* returns a complete RiskHypothesis: no failure leaves analyze_company_risk.
C4_NeverPropagates ==
    TotalInput > 0 =>
        /\ pc # "raised"
        /\ pc = "returned" =>
              /\ overall_risk_score # NoOverall
              /\ major_hypothesis # "unset"
              /\ risk_summary # NoSummary

\* what the run shows when nothing after the count check has happened
NothingRan ==
    /\ primary_signals = <<>>
    /\ buckets = EmptyBuckets
    /\ path = NoPath
    /\ overall_risk_score = NoOverall
    /\ major_hypothesis = "unset"
    /\ risk_summary = NoSummary
    /\ data_sources = NoDataSources
    /\ debug_files = NoDebugFiles
    /\ \A i \in DOMAIN supporting_signals :
          /\ supporting_signals[i].id[1] = "ss"
          /\ supporting_signals[i].risk_score = Unset

\* C5: if the Normalizer hands back a list whose length is not
\* len(news_signals) + len(social_signals), the run ends with the explicit
\* error before any later stage runs, returns nothing, and leaves the list
\* as it was handed back, neither padded nor trimmed.
C5_MismatchAborts ==
    /\ (pc \notin {"normalize", "validate"} /\ Len(RawPart) # TotalInput) =>
          /\ pc = "raised"
          /\ error = "ValueError"
          /\ NothingRan
          /\ supporting_signals \in NormalizerOutputs(news_signals, social_signals)
    /\ error = "ValueError" => Len(supporting_signals) # TotalInput

\* the run has ended with the error on a list that is one signal short
C5_Witness ==
    /\ pc = "raised"
    /\ error = "ValueError"
    /\ TotalInput = 2
    /\ Len(supporting_signals) = 1

\* the category the claim names for an answer: the answer's text once the
\* quotes and whitespace are trimmed and a JSON 'category' field is unwrapped
C6_Expected(resp) ==
    IF resp.kind \in {"text", "json"} /\ resp.core \in CategoryKeys THEN resp.core
    ELSE "MARKET_PERCEPTION"

\* C6: a signal whose answer is one of the 8 keys goes to exactly that
\* category; on any other answer, or when the call fails, it goes to
\* MARKET_PERCEPTION and to no other category.
C6_ClassificationDefault ==
    (pc = "classify" /\ response.kind # "none") =>
        \A c \in CategoryKeys :
            (supporting_signals[idx].id \in Range(buckets[c]))
                <=> (c = C6_Expected(response))

\* an answer outside the taxonomy has sent the second signal to
\* MARKET_PERCEPTION, after a valid answer sent the first to its category
C6_Witness ==
    /\ pc = "classify"
    /\ idx = 2
    /\ response.kind = "text" /\ response.core = "WORKFORCE ISSUES"
    /\ supporting_signals[2].id \in Range(buckets["MARKET_PERCEPTION"])
    /\ supporting_signals[1].id \in Range(buckets["OPERATIONAL_DEGRADATION"])

\* the position of a statement in the order of the claim; the count check
\* belongs to the Normalize stage
StageRank(stage) ==
    CASE stage \in {"normalize", "validate"} -> 1
      [] stage = "extract" -> 2
      [] stage = "classify" -> 3
      [] stage = "audit" -> 4
      [] stage = "score_supporting" -> 5
      [] stage = "score_primary" -> 6
      [] stage = "synthesize" -> 7
      [] stage = "narrate" -> 8
      [] stage = "summarize" -> 9
      [] stage = "returned" -> 10
      [] stage = "raised" -> 11

\* C7: the stages run in the order Normalize, Extract, Classify, Audit,
\* Score(supporting), Score(primary), Synthesize, Narrate, Summarize: every
\* step stays in its stage, moves to the next one or leaves the run with an
\* error; no step returns to an earlier stage and only the classification
\* loop takes more than one step in a stage.
C7_StageOrder ==
    [][/\ pc \notin {"returned", "raised"}
       /\ \/ pc' = "raised"
          \/ StageRank(pc') = StageRank(pc) + 1
          \/ pc' = pc /\ pc = "classify"
          \/ pc = "normalize" /\ pc' = "validate"]_vars

\* a run that took the fallback of both scoring stages and of the overall
\* score has returned
C7_Witness ==
    /\ pc = "returned"
    /\ path.supporting = "fallback"
    /\ path.primary = "fallback"
    /\ path.overall = "fallback"
    /\ path.narrative = "fallback"

\* C8: when the supporting-scoring call fails or its answer is malformed,
\* every supporting signal gets 75 for severity high, 50 for medium, 25 for
\* low, and the fixed reasoning; none is left without a risk_score.
C8_SupportingFallback ==
    path.supporting = "fallback" =>
        \A i \in DOMAIN supporting_signals :
            LET sig == supporting_signals[i]
            IN /\ sig.severity = "high" => sig.risk_score = [tag |-> "num", h |-> 150]
               /\ sig.severity = "medium" => sig.risk_score = [tag |-> "num", h |-> 100]
               /\ sig.severity = "low" => sig.risk_score = [tag |-> "num", h |-> 50]
               /\ sig.risk_score.tag = "num"
               /\ sig.risk_reasoning = "Default risk assessment based on severity"

\* the fallback has scored a medium and a high signal
C8_Witness ==
    /\ path.supporting = "fallback"
    /\ \E i, j \in DOMAIN supporting_signals :
          /\ supporting_signals[i].severity = "medium"
          /\ supporting_signals[i].risk_score = [tag |-> "num", h |-> 100]
          /\ supporting_signals[j].severity = "high"
          /\ supporting_signals[j].risk_score = [tag |-> "num", h |-> 150]

\* the risk_scores of the supporting signals a primary signal lists
ScoresOf(p) ==
    [j \in DOMAIN p.supporting_signal_ids |->
        (CHOOSE sig \in Range(supporting_signals) :
            sig.id = p.supporting_signal_ids[j]).risk_score]

AllNumeric == \A i \in DOMAIN supporting_signals :
                 supporting_signals[i].risk_score.tag = "num"

\* k is x truncated toward zero, for x = num/den with den > 0
TruncatesTo(k, num, den) ==
    IF num >= 0 THEN k * den <= num /\ num < (k + 1) * den
    ELSE (k - 1) * den < num /\ num <= k * den

\* C9: on the fallback path of primary scoring a primary signal with n >= 1
\* supporting scores gets min(mean + min(2n, 10), 100) cut to an integer;
\* the scores [20, 20, 25] give 27.
C9_PrimaryFallbackScore ==
    (path.primary = "fallback" /\ AllNumeric) =>
        \A i \in DOMAIN primary_signals :
            LET scores == ScoresOf(primary_signals[i])
                n == Len(scores)
                twiceSum == SeqSum([j \in DOMAIN scores |-> scores[j].h])
                boost == IF 2 * n <= 10 THEN 2 * n ELSE 10
                k == primary_signals[i].risk_score.h \div 2
            IN /\ n >= 1
               /\ primary_signals[i].risk_score.tag = "num"
               /\ primary_signals[i].risk_score.h % 2 = 0
               /\ IF twiceSum + 2 * n * boost >= 200 * n THEN k = 100
                  ELSE TruncatesTo(k, twiceSum + 2 * n * boost, 2 * n)

\* the example of the claim: [20, 20, 25] has given 27
C9_Witness ==
    /\ path.primary = "fallback"
    /\ \E i \in DOMAIN primary_signals :
          /\ ScoresOf(primary_signals[i]) =
                <<[tag |-> "num", h |-> 40], [tag |-> "num", h |-> 40],
                  [tag |-> "num", h |-> 50]>>
          /\ primary_signals[i].risk_score = [tag |-> "num", h |-> 54]

\* C10: on the fallback path of primary scoring every primary signal's
\* risk_score is at least the mean of its supporting scores and at most 10
\* above it, whichever path produced the supporting scores.
C10_FallbackWithinBase ==
    (path.primary = "fallback" /\ AllNumeric) =>
        \A i \in DOMAIN primary_signals :
            LET scores == ScoresOf(primary_signals[i])
                n == Len(scores)
                twiceSum == SeqSum([j \in DOMAIN scores |-> scores[j].h])
            IN /\ primary_signals[i].risk_score.tag = "num"
               /\ n * primary_signals[i].risk_score.h >= twiceSum
               /\ n * primary_signals[i].risk_score.h <= twiceSum + 20 * n

\* C11: on the Oracle path of primary scoring every primary signal's
\* risk_score is a number within 20 points of the mean of its supporting
\* signals' risk_scores, a primary signal the answer does not name included.
C11_OracleWithinTwenty ==
    (path.primary = "oracle" /\ AllNumeric) =>
        \A i \in DOMAIN primary_signals :
            LET scores == ScoresOf(primary_signals[i])
                n == Len(scores)
                twiceSum == SeqSum([j \in DOMAIN scores |-> scores[j].h])
            IN /\ primary_signals[i].risk_score.tag = "num"
               /\ n * primary_signals[i].risk_score.h >= twiceSum - 40 * n
               /\ n * primary_signals[i].risk_score.h <= twiceSum + 40 * n

\* the fixed bands of a score
LevelBand(score) ==
    IF score >= 90 THEN "catastrophic"
    ELSE IF score >= 75 THEN "severe"
    ELSE IF score >= 60 THEN "high"
    ELSE IF score >= 40 THEN "moderate"
    ELSE IF score >= 20 THEN "low"
    ELSE "minimal"

\* C12: in every returned RiskHypothesis overall_risk_score has an integer
\* score in 0..100, the level is the fixed band of that score (90-100
\* catastrophic, 75-89 severe, 60-74 high, 40-59 moderate, 20-39 low, 0-19
\* minimal) and confidence is one of low, medium, high, very_high.
C12_OverallBanded ==
    pc = "returned" =>
        /\ overall_risk_score.shape = "dict"
        /\ InRange(overall_risk_score.score)
        /\ overall_risk_score.level = LevelBand(overall_risk_score.score.h \div 2)
        /\ overall_risk_score.confidence \in {"low", "medium", "high", "very_high"}

\* twice the sum of the primary signals' risk_scores: their mean is
\* PrimaryTwiceSum / (2 * Len(primary_signals))
PrimaryTwiceSum ==
    SeqSum([i \in DOMAIN primary_signals |-> primary_signals[i].risk_score.h])

\* the overall fallback has returned its dict
OverallFellBack ==
    /\ path.overall = "fallback"
    /\ pc \in {"narrate", "summarize", "returned"}

\* k is an integer nearest to num/den, den > 0 (either neighbour of a tie)
NearestTo(k, num, den) ==
    /\ 2 * (num - k * den) <= den
    /\ 2 * (k * den - num) <= den

\* C13 as stated: when the overall Oracle call fails and there is a primary
\* signal, the returned score is the mean of the primary risk_scores rounded
\* to the nearest integer, the level is 'high' exactly when that score is
\* >= 60 and 'moderate' otherwise, and confidence is 'medium'.
C13_FallbackRounded ==
    OverallFellBack =>
        LET k == overall_risk_score.score.h \div 2
        IN /\ IsInteger(overall_risk_score.score)
           /\ NearestTo(k, PrimaryTwiceSum, 2 * Len(primary_signals))
           /\ overall_risk_score.level = (IF k >= 60 THEN "high" ELSE "moderate")
           /\ overall_risk_score.confidence = "medium"

\* C13 amended: when the overall Oracle call fails and there is a primary
\* signal, the returned score is the mean of the primary risk_scores cut to
\* an integer (toward zero), the level is 'high' exactly when that score is
\* >= 60 and 'moderate' otherwise, and confidence is 'medium'.
C13_FallbackTruncated ==
    OverallFellBack =>
        LET k == overall_risk_score.score.h \div 2
        IN /\ primary_signals # <<>>
           /\ IsInteger(overall_risk_score.score)
           /\ TruncatesTo(k, PrimaryTwiceSum, 2 * Len(primary_signals))
           /\ overall_risk_score.level = (IF k >= 60 THEN "high" ELSE "moderate")
           /\ overall_risk_score.confidence = "medium"

\* three primary signals scored 20, 20 and 25 (mean 21.67) have given 21
C13_Witness ==
    /\ OverallFellBack
    /\ Len(primary_signals) = 3
    /\ PrimaryTwiceSum = 130
    /\ overall_risk_score.score = [tag |-> "num", h |-> 42]
    /\ overall_risk_score.level = "moderate"

\* C14: with no primary signal the overall synthesizer returns score 0,
\* level 'minimal', confidence 'low' and the narrative generator its fixed
\* insufficient-data text, neither querying the Oracle, and the risk summary
\* has overall_risk 'low' and confidence 'low'.
C14_EmptyPrimary ==
    primary_signals = <<>> =>
        /\ pc \in {"narrate", "summarize", "returned"} =>
              /\ overall_risk_score.shape = "dict"
              /\ overall_risk_score.score = [tag |-> "num", h |-> 0]
              /\ overall_risk_score.level = "minimal"
              /\ overall_risk_score.confidence = "low"
              /\ path.overall = "none"
        /\ pc \in {"summarize", "returned"} =>
              /\ major_hypothesis = "Insufficient data to generate comprehensive hypothesis"
              /\ path.narrative = "none"
        /\ pc = "returned" =>
              /\ risk_summary.overall_risk = "low"
              /\ risk_summary.confidence = "low"

\* a run over no records and financial data that yielded no insight has
\* returned
C14_Witness ==
    /\ pc = "returned"
    /\ primary_signals = <<>>
    /\ financial_data = "present"
    /\ path.extract = "fallback"
    /\ risk_summary.overall_risk = "low"
    /\ overall_risk_score.level = "minimal"

HighRiskCount ==
    Cardinality({i \in DOMAIN primary_signals : primary_signals[i].risk_level = "high"})

\* C15: for a non-empty list of total primary signals, high_risk_count of
\* them with risk_level 'high', the summary has overall_risk 'high' when
\* 10*high_risk_count >= 6*total, otherwise 'medium' when
\* 10*high_risk_count >= 3*total, otherwise 'low'; confidence 'high' when
\* total >= 3 and 'medium' otherwise; and the recommendation of the fixed
\* table for that overall_risk.
C15_SummaryThresholds ==
    (pc = "returned" /\ primary_signals # <<>>) =>
        LET total == Len(primary_signals)
            s == risk_summary
        IN /\ 10 * HighRiskCount >= 6 * total => s.overall_risk = "high"
           /\ (10 * HighRiskCount < 6 * total /\ 10 * HighRiskCount >= 3 * total)
                 => s.overall_risk = "medium"
           /\ 10 * HighRiskCount < 3 * total => s.overall_risk = "low"
           /\ total >= 3 => s.confidence = "high"
           /\ total < 3 => s.confidence = "medium"
           /\ s.overall_risk = "high" => s.recommendation =
                 "Immediate attention required. Consider detailed due diligence and risk mitigation strategies."
           /\ s.overall_risk = "medium" => s.recommendation =
                 "Monitor closely. Review specific risk areas and develop contingency plans."
           /\ s.overall_risk = "low" => s.recommendation =
                 "Maintain standard monitoring procedures. Continue tracking key indicators."

\* the example of the claim: three primary signals, two of them high, have
\* given 'high' with confidence 'high'
C15_Witness ==
    /\ pc = "returned"
    /\ Len(primary_signals) = 3
    /\ HighRiskCount = 2
    /\ risk_summary.overall_risk = "high"
    /\ risk_summary.confidence = "high"

\* C16: the financial stage never ends the run and only appends. When the
\* financial data is absent, or the Oracle fails or answers with something
\* empty or malformed, it adds nothing; otherwise the k-th returned insight
\* becomes one new signal with id ss_financial_k, source_type 'financial'
\* and evidence_url null, after the normalized signals, which keep their
\* count, order and content.
C16_FinancialAdditive ==
    [][pc = "extract" =>
        LET n == Len(supporting_signals)
            m == Len(financial_insights')
        IN /\ pc' = "classify"
           /\ error' = "none"
           /\ (financial_data \in {"none", "empty"} \/ path'.extract = "fallback")
                 => m = 0
           /\ Len(supporting_signals') = n + m
           /\ SubSeq(supporting_signals', 1, n) = supporting_signals
           /\ \A k \in 1..m :
                 /\ supporting_signals'[n + k].id = <<"ss_financial", k>>
                 /\ supporting_signals'[n + k].source_type = "financial"
                 /\ supporting_signals'[n + k].evidence_url = "<null>"
           /\ \A i \in 1..n : supporting_signals'[i].id[1] = "ss"]_vars

\* three insights have been appended after two normalized signals
C16_Witness ==
    /\ pc = "classify"
    /\ path.extract = "oracle"
    /\ Len(financial_insights) = 3
    /\ Len(supporting_signals) = 5
    /\ supporting_signals[2].id = <<"ss", 2>>
    /\ supporting_signals[5].id = <<"ss_financial", 3>>
    /\ supporting_signals[5].evidence_url = "<null>"

\* C17: in every returned RiskHypothesis data_sources.news_count is the
\* number of news records passed in, social_count the number of social
\* records, and has_financial_data is true exactly when financial data was
\* present, an empty financial_data object counting as absent.
C17_DataSources ==
    pc = "returned" =>
        /\ data_sources.news_count = Len(news_signals)
        /\ data_sources.social_count = Len(social_signals)
        /\ data_sources.has_financial_data
              <=> (financial_data \notin {"none", "empty"})

\* every optional field of every record is either missing or has a value
FieldsAbsentOrValued ==
    /\ \A i \in DOMAIN news_signals : news_signals[i]["metadata"] # "<null>"
    /\ \A i \in DOMAIN social_signals : social_signals[i]["metadata"] # "<null>"

\* the record behind the i-th supporting signal
RecordOf(i) ==
    IF i <= Len(news_signals) THEN news_signals[i]
    ELSE social_signals[i - Len(news_signals)]

\* C18: the Normalizer does not fail on records whose optional fields are
\* missing: each record still yields one supporting signal, with timeframe
\* 'Unknown' when no date field is there, an empty evidence text when no
\* text field is there and an empty evidence_url when no url field is there.
C18_AbsentFieldsTolerated ==
    (pc # "normalize" /\ FieldsAbsentOrValued) =>
        /\ pc # "raised"
        /\ Len(supporting_signals) = Len(news_signals) + Len(social_signals)
        /\ \A i \in DOMAIN supporting_signals :
              LET present == PresentKeys(RecordOf(i))
                  s == supporting_signals[i]
              IN /\ present \cap {"metadata.publish_date", "metadata.date",
                                  "published_date", "created_date"} = {}
                       => s.timeframe = "Unknown"
                 /\ present \cap {"extracted_text", "post_text"} = {}
                       => s.evidence = ""
                 /\ present \cap (UrlKeys \cup {"metadata.source_url",
                                  "metadata.url", "metadata.link"}) = {}
                       => s.evidence_url = ""

\* a news record and a social record without any field have given two
\* signals with timeframe 'Unknown' and empty text and url
C18_Witness ==
    /\ pc = "extract"
    /\ Len(news_signals) = 1 /\ PresentKeys(news_signals[1]) = {}
    /\ news_signals[1]["metadata"] = Absent
    /\ Len(social_signals) = 1 /\ PresentKeys(social_signals[1]) = {}
    /\ Len(supporting_signals) = 2
    /\ \A i \in 1..2 :
          /\ supporting_signals[i].timeframe = "Unknown"
          /\ supporting_signals[i].evidence = ""
          /\ supporting_signals[i].evidence_url = ""
          /\ supporting_signals[i].title = "Untitled signal"

\* a signal as it was before the scoring stages
Unscored(signals) ==
    [i \in DOMAIN signals |->
        [signals[i] EXCEPT !.risk_score = [tag |-> "unset", h |-> 0],
                           !.risk_reasoning = "unset"]]

\* C19: two runs for different companies on the same engine share no
\* mutable state: whatever the interleaving, once both are over, every
\* artifact this run wrote is what the run writes when it is alone - its
\* supporting signals, its primary signals and its assignment report, as
\* they were before scoring.
C19_RunsIsolated ==
    (pc = "returned" /\ other_run = "dumped_assignment") =>
        /\ debug_files.supporting_signals.data = Unscored(supporting_signals)
        /\ debug_files.primary_signals.data = Unscored(primary_signals)
        /\ debug_files.assignment_analysis.data[1].primary_signal_assignments =
              [i \in DOMAIN primary_signals |->
                  [primary_id |-> primary_signals[i].id,
                   assigned_ids |-> primary_signals[i].supporting_signal_ids]]

\* C20: running the three scoring stages again on the same input, with an
\* Oracle whose answer is a function of its prompt, returns what the first
\* round returned - also when the first round fell back and wrote
\* risk_score and risk_reasoning into the caller's lists.
C20_RescoringIdempotent ==
    \A i, j \in DOMAIN runs : runs[i] = runs[j]

\* the answer is a JSON object inside a pair of code fences
FencedObject ==
    \E open \in {"fence_json", "fence"} :
        response \in {<<open, "{}", "fence">>, <<open, " ", "{}", "fence">>,
                      <<open, " ", "{}", " ", "fence">>}

\* C21: a JSON object in code fences is treated like the object without
\* them: parse_json_response returns the object, and the stage that asked
\* takes its Oracle path, not its fallback.
C21_FencedLikeBare ==
    (pc = "parsed" /\ FencedObject) =>
        /\ parse_json_response(response) = parse_json_response(<<"{}">>)
        /\ \E stage \in DOMAIN path : path[stage] = "oracle"

\* C22: every run of analyze_company_risk eventually returns or raises,
\* also when an Oracle call never responds: the call times out and the
\* stage goes on with its fallback.
C22_RunCompletes == <>(pc \in {"returned", "raised"})

\* C23: every supporting signal of a returned result has source_type news,
\* social or financial and severity low, medium or high, whatever
\* source_type the raw records carry and whatever severity the Oracle's
\* financial insights carry.
C23_EnumeratedFields ==
    pc = "returned" =>
        \A i \in DOMAIN supporting_signals :
            /\ supporting_signals[i].source_type \in {"news", "social", "financial"}
            /\ supporting_signals[i].severity \in {"low", "medium", "high"}

C25_OnlyUsedCategories ==
    /\ pc = "audit" =>
          /\ \A i \in DOMAIN primary_signals :
                primary_signals[i].supporting_signal_ids # <<>>
          /\ Len(primary_signals) <= 8
          /\ \A i, j \in DOMAIN primary_signals :
                i # j => /\ primary_signals[i].id # primary_signals[j].id
                         /\ primary_signals[i].key # primary_signals[j].key
          /\ supporting_signals = <<>> => primary_signals = <<>>
    /\ (pc = "classify" /\ supporting_signals = <<>>) => ~ENABLED ClassifySignal

C25_Witness ==
    /\ pc = "audit"
    /\ Len(primary_signals) = 2
    /\ Len(supporting_signals) = 3

\* C26: in a returned result every primary signal's source_distribution
\* sums to the number of its supporting_signal_ids, and over all primary
\* signals News sums to len(news_signals) and Social to len(social_signals):
\* a mismatch does not reach the result.
C26_DistributionAddsUp ==
    pc = "returned" =>
        LET d(i) == primary_signals[i].source_distribution
            total(b) == SeqSum([i \in DOMAIN primary_signals |-> d(i)[b]])
        IN /\ \A i \in DOMAIN primary_signals :
                 d(i)["News"] + d(i)["Social"] + d(i)["Financial"] =
                     Len(primary_signals[i].supporting_signal_ids)
           /\ total("News") = Len(news_signals)
           /\ total("Social") = Len(social_signals)

\* `new` is `old` with nothing but risk_score and risk_reasoning written
SameButScores(old, new) ==
    /\ Len(new) = Len(old)
    /\ \A i \in DOMAIN old :
          [new[i] EXCEPT !.risk_score = old[i].risk_score,
                         !.risk_reasoning = old[i].risk_reasoning] = old[i]

\* C27: each scoring stage returns the signals it was given, the same ids
\* in the same order with every earlier field as it was (a primary signal's
\* supporting_signal_ids included), and only risk_score and risk_reasoning
\* written; a stage that returns leaves no signal without a score, and a
\* signal the Oracle's answer does not name has the default, 50 for a
\* supporting and 60 for a primary signal, whatever other ids the answer
\* names.
C27_ScoringPreserves ==
    [][/\ pc = "score_supporting" =>
             /\ SameButScores(supporting_signals, supporting_signals')
             /\ \A i \in DOMAIN supporting_signals' :
                   /\ supporting_signals'[i].risk_score # Unset
                   /\ supporting_signals'[i].risk_reasoning = "Risk assessment pending"
                         => supporting_signals'[i].risk_score = Num(50)
       /\ pc = "score_primary" =>
             /\ SameButScores(primary_signals, primary_signals')
             /\ supporting_signals' = supporting_signals
             /\ pc' # "raised" =>
                   \A i \in DOMAIN primary_signals' :
                      /\ primary_signals'[i].risk_score # Unset
                      /\ primary_signals'[i].risk_reasoning = "Risk assessment pending"
                            => primary_signals'[i].risk_score = Num(60)]_vars

\* both stages took the Oracle path on answers that name other ids only
C27_Witness ==
    /\ pc = "synthesize"
    /\ path.supporting = "oracle"
    /\ path.primary = "oracle"
    /\ Len(supporting_signals) = 3
    /\ \A i \in DOMAIN supporting_signals :
          /\ supporting_signals[i].risk_reasoning = "Risk assessment pending"
          /\ supporting_signals[i].risk_score = Num(50)
    /\ \A i \in DOMAIN primary_signals :
          /\ primary_signals[i].risk_reasoning = "Risk assessment pending"
          /\ primary_signals[i].risk_score = Num(60)

\* C28: a primary signal's risk_level is the one of its taxonomy category,
\* 'high' for OPERATIONAL_DEGRADATION, FINANCIAL_DISTRESS, WORKFORCE_ISSUES
\* and REGULATORY_LEGAL and 'medium' for the other four, from classification
\* to the end of the run, whatever score the signal gets; so the summary's
\* overall_risk follows from the categories present alone.
C28_LevelFromCategory ==
    LET HighCategories == {"OPERATIONAL_DEGRADATION", "FINANCIAL_DISTRESS",
                           "WORKFORCE_ISSUES", "REGULATORY_LEGAL"}
        present == {primary_signals[i].key : i \in DOMAIN primary_signals}
    IN /\ \A i \in DOMAIN primary_signals :
             primary_signals[i].risk_level =
                 IF primary_signals[i].key \in HighCategories THEN "high"
                 ELSE "medium"
       /\ (pc = "returned" /\ primary_signals # <<>>) =>
             risk_summary.overall_risk =
                 OverallRisk(Cardinality(present \cap HighCategories),
                             Cardinality(present))

\* a returned run whose only categories are 'medium' ones scored above 70,
\* or 'high' ones scored 20
C28_Witness ==
    /\ pc = "returned"
    /\ Len(primary_signals) = 2
    /\ \/ /\ risk_summary.overall_risk = "low"
          /\ \A i \in DOMAIN primary_signals :
                /\ primary_signals[i].risk_level = "medium"
                /\ primary_signals[i].risk_score = Half(72)
       \/ /\ risk_summary.overall_risk = "high"
          /\ \A i \in DOMAIN primary_signals :
                /\ primary_signals[i].risk_level = "high"
                /\ primary_signals[i].risk_score = Num(20)

\* the original title of the i-th raw record (lines 226 and 274)
OriginalTitle(i) ==
    IF i <= Len(news_signals)
    THEN Or(MetaGet(news_signals[i], "metadata.title", ""),
         Or(Get(news_signals[i], "headline", ""),
            First60(Get(news_signals[i], "extracted_text", ""))))
    ELSE Or(Get(social_signals[i - Len(news_signals)], "post_title", ""),
            First60(Get(social_signals[i - Len(news_signals)],
                        "extracted_text", "")))

\* C29: a raw record with a non-empty original title gives a supporting
\* signal with a non-empty title, whatever the Oracle answered to the title
\* query: the validated insight or the original title.
C29_TitleNonEmpty ==
    pc = "validate" =>
        \A i \in DOMAIN supporting_signals :
            OriginalTitle(i) # "" =>
                /\ supporting_signals[i].title # ""
                /\ supporting_signals[i].title \in
                      {"Layoffs announced", OriginalTitle(i)}

\* C30: after any sequence of dump_data and delete_dump the ids of the
\* checklist entries are pairwise distinct, so that get_dump_by_id finds at
\* most one entry, and total_dumps is the number of entries.
C30_ChecklistIds ==
    LET dumps == dump_manager.checklist.dumps
    IN /\ \A i, j \in DOMAIN dumps : i # j => dumps[i].id # dumps[j].id
       /\ dump_manager.checklist.total_dumps = Len(dumps)

====
